---- MODULE Spec2Model ----
(***************************************************************************)
(* CSIP: a thin C facade over the SCIP engine (src/src/csip.c).            *)
(*                                                                         *)
(* The wrapper's struct csip_model is modelled field by field; the engine  *)
(* is modelled only as far as the wrapper observes it: the variables and   *)
(* constraints of the problem, the best solution, and the return code of   *)
(* every engine call, which is an input drawn from SCIP_RETCODES.          *)
(* A handle (a SCIP_VAR or SCIP_CONS pointer) is the 1-based position of   *)
(* the object in the engine's problem; NULL is the null pointer.           *)
(***************************************************************************)
EXTENDS Integers, Sequences, FiniteSets, TLC

(* ---------------------------- program constants ----------------------- *)
INITIALSIZE == 64
GROWFACTOR == 2

CSIP_RETCODE_OK == 0
CSIP_RETCODE_ERROR == 1
CSIP_RETCODE_NOMEMORY == 2

(* ---------------------------- bounds of the model --------------------- *)
\* entries a store may hold in SpecStore: one more than INITIALSIZE, so
\* that the first growth of the backing array happens
MaxStore == 65
\* variables of a model in the other specifications
MaxVars == 2
\* terms handed to one constraint builder call in SpecConss
MaxTerms == 1
\* callbacks registered with a model
MaxCallbacks == 1
\* constraints of a model outside SpecConss
MaxConss == 1
\* variables of a model in SpecRead
MaxReadVars == 1
\* variables of a model in SpecType
MaxTypeVars == 1
\* variables of each model in SpecPair
MaxPairVars == 1
\* variables of a model in SpecSolve
MaxSolveVars == 1
\* solution objects the wrapper creates in one run
MaxSols == 3
\* variables of a model in SpecLazy
MaxLazyVars == 1
\* variables of a model in SpecHeur
MaxHeurVars == 1
\* heuristic callbacks of a model in SpecHeur
MaxHeurs == 1
\* variables of a model in SpecStatus
MaxStatusVars == 1
\* variables of a model in SpecFree
MaxFreeVars == 1
\* plugins of one kind registered in SpecNames
MaxPlugins == 2
\* variables of a model in SpecBatch
MaxBatchVars == 2
\* positions of a batch call in SpecBatch
MaxBatch == 2

(* ---------------------------- vocabulary ------------------------------ *)
\* the null pointer, for a solution object the wrapper owns: such an object
\* is named by its number in the order of creation, from 1
NULL == 0
\* the null pointer, for an array of handles: handles are >= 1 and an entry
\* SCIPreleaseCons has set to NULL is 0, so no array of handles equals it
NULLARRAY == <<-1>>
\* the null pointer, for a solution of the engine
NULLSOL == [null |-> TRUE, vals |-> <<>>, obj |-> 0]
\* no search of the engine has ended yet
NoSearch == [n |-> 0, status |-> "SCIP_STATUS_UNKNOWN", dual |-> 0, sense |-> "SCIP_OBJSENSE_MINIMIZE"]
NoOut == -1
\* the engine has created no constraint object
NoCons == [fn |-> "none", terms |-> <<>>, nuses |-> 0, handle |-> 0]
NaN == "NaN"
MINIMIZE == "SCIP_OBJSENSE_MINIMIZE"
MAXIMIZE == "SCIP_OBJSENSE_MAXIMIZE"
SCIP_OKAY == "SCIP_OKAY"
SCIP_RETCODES == {"SCIP_OKAY", "SCIP_ERROR", "SCIP_NOMEMORY"}
VARTYPES == {"BINARY", "INTEGER", "IMPLINT", "CONTINUOUS"}

VARIABLES
    nvars, varssize, vars,      \* model->nvars, model->varssize, model->vars
    nconss, consssize, conss,   \* model->nconss, model->consssize, model->conss
    sense,                      \* model->sense
    initialsol,                 \* model->initialsol
    status, objbound,           \* model->status, model->objbound
    scipVar,                    \* engine: the variables of the problem, [lb, ub, vartype, obj]
    scipNConss,                 \* engine: number of constraints of the problem
    scipCons,                   \* engine: the constraint object created last
    scipBestSol,                \* engine: SCIPgetBestSol, NULLSOL or [vals, obj]
    scipConshdlrs,              \* engine: the constraint handlers the wrapper included
    nlazycb, nheur,             \* model->nlazycb, model->nheur
    pc,                         \* "idle", or "search" while SCIPsolve of CSIPsolve runs
    crashed,                    \* the process died on an invalid memory access
    ret, out, lastOp,           \* last call: return code, output value, name
    okVar, okCons,              \* add-variable / add-constraint calls that returned OK
    userObj,                    \* per index: the coefficient the user last set
    preObj,                     \* engine coefficients when the solve call in progress began
    lastSearch,                 \* what the engine reported when its last search ended
    issued,                     \* the engine calls the last call issued
    twin,                       \* the second model of a side-by-side run
    sols,                       \* engine: per solution object the wrapper created, what became of it
    conshdlrdata,               \* per lazy callback: struct SCIP_ConshdlrData
    heurdata,                   \* per heuristic callback: struct SCIP_HeurData
    running                     \* the plugin invocation in progress

storeVars == <<nvars, varssize, vars, nconss, consssize, conss>>
modelVars == <<sense, initialsol, status, objbound, nlazycb, nheur>>
engineVars == <<scipVar, scipNConss, scipCons, scipBestSol, scipConshdlrs>>
callVars == <<ret, out, lastOp, okVar, okCons>>
ghostVars == <<userObj, preObj, lastSearch>>
pluginVars == <<sols, conshdlrdata, heurdata, running>>
sideVars == <<twin, pluginVars>>
allVars == <<storeVars, modelVars, engineVars, callVars, ghostVars, issued, pc,
             crashed, sideVars>>

(* ---------------------------- return codes ---------------------------- *)
retCodeCSIPtoSCIP(csipRetCode) ==
    CASE csipRetCode = CSIP_RETCODE_OK -> SCIP_OKAY
      [] csipRetCode = CSIP_RETCODE_NOMEMORY -> "SCIP_NOMEMORY"
      [] OTHER -> "SCIP_ERROR"

retCodeSCIPtoCSIP(scipRetCode) ==
    CASE scipRetCode = "SCIP_OKAY" -> CSIP_RETCODE_OK
      [] scipRetCode = "SCIP_NOMEMORY" -> CSIP_RETCODE_NOMEMORY
      [] OTHER -> CSIP_RETCODE_ERROR

(* ---------------------------- growable stores ------------------------- *)
\* "do we need to resize?"
NeedResize(n, size) == n >= size

GrownSize(size) == GROWFACTOR * size

\* the value written through idx, NoOut when the caller passed idx = NULL
ReportIdx_OffByOne(n, wantIdx) == IF wantIdx THEN n + 1 ELSE NoOut

ReportIdx(n, wantIdx) == IF wantIdx THEN n ELSE NoOut

\* the value of model->vars / model->conss after the realloc call
Realloc(array, reallocOk) == IF reallocOk THEN array ELSE NULLARRAY

\* the second model of a side-by-side run, before it is used: its sense, the
\* engine's variables and best solution, the coefficients its search is
\* given, and whether the pair entered the last search as mirror images
TwinInit ==
    [sense |-> MINIMIZE, scipVar |-> <<>>, scipBestSol |-> NULLSOL,
     presented |-> <<>>, mirrored |-> FALSE]

\* no plugin of the wrapper is running. While one runs: its kind, its index,
\* the stage of the engine, the solution it is about, the result and the
\* return code it reports; for a heuristic (`heur`) the object its callback has
\* supplied, both kept while the engine checks the heuristic's candidate
NoCall ==
    [active |-> FALSE, kind |-> "none", hdlr |-> 0, stage |-> "SCIP_STAGE_PROBLEM",
     sol |-> NULL, result |-> "SCIP_DIDNOTRUN",
     rc |-> SCIP_OKAY, violated |-> FALSE, stored |-> FALSE,
     heur |-> 0, supplied |-> NULL]

(* ---------------------------- Init ------------------------------------ *)
Init ==
    /\ nvars = 0
    /\ varssize = INITIALSIZE
    /\ vars = <<>>
    /\ nconss = 0
    /\ consssize = INITIALSIZE
    /\ conss = <<>>
    /\ sense = MINIMIZE
    /\ initialsol = NULL
    /\ status = "CSIP_STATUS_UNKNOWN"
    /\ objbound = NaN
    /\ scipVar = <<>>
    /\ scipNConss = 0
    /\ scipCons = NoCons
    /\ scipBestSol = NULLSOL
    /\ scipConshdlrs = <<>>
    /\ nlazycb = 0
    /\ nheur = 0
    /\ pc = "idle"
    /\ crashed = FALSE
    /\ ret = CSIP_RETCODE_OK
    /\ out = NoOut
    /\ lastOp = "CSIPcreateModel"
    /\ okVar = 0
    /\ okCons = 0
    /\ userObj = <<>>
    /\ preObj = <<>>
    /\ lastSearch = NoSearch
    /\ issued = <<>>
    /\ twin = TwinInit
    /\ sols = <<>>
    /\ conshdlrdata = <<>>
    /\ heurdata = <<>>
    /\ running = NoCall

(* ---------------------------- calls ----------------------------------- *)
\* what the caller sees of a call: its name, its return code, its output
Return(op, code, output) ==
    /\ lastOp' = op
    /\ ret' = code
    /\ out' = output
    /\ issued' = <<>>

\* a call that returns `code` and leaves everything else as it was
Abort(op, code) ==
    /\ Return(op, code, NoOut)
    /\ UNCHANGED <<storeVars, modelVars, engineVars, okVar, okCons, ghostVars,
                   pc, crashed>>

\* an access through a null array pointer that kills the process
Segfault(op) ==
    /\ crashed' = TRUE
    /\ lastOp' = op
    /\ UNCHANGED <<storeVars, modelVars, engineVars, ret, out, okVar, okCons,
                   ghostVars, issued, pc>>

Callable == pc = "idle" /\ ~crashed

\* the return codes of a sequence of engine calls of which the failAt-th
\* fails (none fails when failAt = 0)
EngineRc(failAt) == IF failAt = 0 THEN {SCIP_OKAY} ELSE SCIP_RETCODES \ {SCIP_OKAY}

(* ---------------------------- engine calls ---------------------------- *)
\* an engine call as logged in `issued`: the function, the variable (or other
\* object) and the value it is given, a second variable where it takes two,
\* and the code it returned
Call(fn, var, val) == [fn |-> fn, var |-> var, var2 |-> 0, val |-> val, rc |-> SCIP_OKAY]

\* an engine call logged by its name alone
Event(fn) == Call(fn, 0, 0)

\* SCIP_in_CSIP returns from the enclosing function at the first engine call
\* that does not return SCIP_OKAY: the log of calls the last of which returned rc
Returning(calls, rc) ==
    IF rc = SCIP_OKAY \/ Len(calls) = 0 THEN calls
    ELSE [calls EXCEPT ![Len(calls)].rc = rc]

\* the handle stored for the 0-based public index i
VarAt(store, i) == store[i + 1]

\* the last position among the first `upto` of a batch call that names the
\* variable with handle var, 0 when none does
LastPos(store, indices, upto, var) ==
    LET hits == {j \in 1..upto : VarAt(store, indices[j]) = var}
    IN  IF hits = {} THEN 0 ELSE CHOOSE j \in hits : \A k \in hits : k <= j

\* the engine's variables after the first `upto` calls of a loop that sets
\* field `fld` of the variable at indices[j] to values[j]
BatchSet(evars, store, indices, values, upto, fld) ==
    [var \in DOMAIN evars |->
        LET j == LastPos(store, indices, upto, var)
        IN  IF j = 0 THEN evars[var]
            ELSE IF fld = "obj" THEN [evars[var] EXCEPT !.obj = values[j]]
            ELSE IF fld = "lb" THEN [evars[var] EXCEPT !.lb = values[j]]
            ELSE [evars[var] EXCEPT !.ub = values[j]]]

\* the number of calls of a loop of n engine calls that take effect when the
\* failAt-th fails
Applied_All(n, failAt) == n

Applied(n, failAt) == IF failAt \in 1..n THEN failAt - 1 ELSE n

LoopRet(n, failAt, rc) ==
    IF failAt \in 1..n THEN retCodeSCIPtoCSIP(rc) ELSE CSIP_RETCODE_OK

\* the coefficients the user last set, per public index
UserObjAfter(uobj, indices, values, upto) ==
    [i \in DOMAIN uobj |->
        LET hits == {j \in 1..upto : indices[j] + 1 = i}
        IN  IF hits = {} THEN uobj[i]
            ELSE values[CHOOSE j \in hits : \A k \in hits : k <= j]]

\* the engine calls a loop over the positions of an index array makes when its
\* failAt-th call fails with rc (failAt = 0: none fails)
BatchCalls(fn, store, indices, values, failAt, rc) ==
    Returning([j \in 1..(IF failAt \in 1..Len(indices) THEN failAt ELSE Len(indices)) |->
                  Call(fn, VarAt(store, indices[j]), values[j])],
              IF failAt \in 1..Len(indices) THEN rc ELSE SCIP_OKAY)

(* ---------------------------- CSIPaddVar ------------------------------ *)
NewVar(lowerbound, upperbound, vartype) ==
    [lb |-> lowerbound, ub |-> upperbound, vartype |-> vartype, obj |-> 0]

\* failAt = 1: SCIPcreateVarBasic fails with rc; failAt = 2: SCIPaddVar fails
CSIPaddVar(lowerbound, upperbound, vartype, wantIdx) ==
    /\ Callable
    /\ \E failAt \in 0..2 :
       \E rc \in EngineRc(failAt),
          reallocOk \in (IF failAt = 0 /\ NeedResize(nvars, varssize)
                         THEN BOOLEAN ELSE {TRUE}),
          segv \in (IF failAt = 0 /\ vars = NULLARRAY THEN BOOLEAN ELSE {FALSE}) :
        IF failAt # 0
        THEN Abort("CSIPaddVar", retCodeSCIPtoCSIP(rc))
        ELSE
          LET var == Len(scipVar) + 1
              grow == NeedResize(nvars, varssize)
              array == IF grow THEN Realloc(vars, reallocOk) ELSE vars
          IN  /\ scipVar' = Append(scipVar, NewVar(lowerbound, upperbound, vartype))
              /\ varssize' = IF grow THEN GrownSize(varssize) ELSE varssize
              /\ lastOp' = "CSIPaddVar"
              /\ issued' = <<>>
              /\ UNCHANGED <<nconss, consssize, conss, modelVars, scipNConss,
                             scipCons, scipBestSol, scipConshdlrs, okCons, preObj,
                             lastSearch, pc>>
              /\ IF grow /\ array = NULLARRAY
                 THEN \* realloc failed: model->vars is now NULL, idx is not written
                      /\ vars' = NULLARRAY
                      /\ ret' = CSIP_RETCODE_NOMEMORY
                      /\ out' = NoOut
                      /\ UNCHANGED <<nvars, okVar, userObj, crashed>>
                 ELSE IF array = NULLARRAY
                 THEN \* model->vars was lost by an earlier failure: the write
                      \* through it is undefined, it kills the process or is lost
                      IF segv
                      THEN /\ crashed' = TRUE
                           /\ UNCHANGED <<nvars, vars, ret, out, okVar, userObj>>
                      ELSE /\ vars' = NULLARRAY
                           /\ nvars' = nvars + 1
                           /\ ret' = CSIP_RETCODE_OK
                           /\ out' = ReportIdx(nvars, wantIdx)
                           /\ okVar' = okVar + 1
                           /\ userObj' = Append(userObj, 0)
                           /\ UNCHANGED crashed
                 ELSE /\ vars' = Append(array, var)
                      /\ nvars' = nvars + 1
                      /\ ret' = CSIP_RETCODE_OK
                      /\ out' = ReportIdx(nvars, wantIdx)
                      /\ okVar' = okVar + 1
                      /\ userObj' = Append(userObj, 0)
                      /\ UNCHANGED crashed

(* ---------------------------- constraints ----------------------------- *)
\* a constraint object created by fn with the given terms: its creator holds
\* the one reference to it, and the problem does not contain it (handle 0).
\* A term is a variable, a second one in a bilinear term, and a coefficient
\* or weight. nuses counts what the wrapper's own calls do to the object:
\* SCIPaddCons captures it, SCIPreleaseCons releases it
NewCons(fn, terms) == [fn |-> fn, terms |-> terms, nuses |-> 1, handle |-> 0]

\* the terms the first `upto` of a sequence of coefficient calls have added
TermsOf(calls, upto) ==
    [j \in 1..upto |->
        [var |-> calls[j].var, var2 |-> calls[j].var2, val |-> calls[j].val]]

\* a builder returns `code` after the engine calls `calls`, before addCons has
\* stored anything: the object it has created stays with the engine as `cons`,
\* unreleased
BuilderReturns(op, code, calls, cons) ==
    /\ lastOp' = op
    /\ ret' = code
    /\ out' = NoOut
    /\ issued' = calls
    /\ scipCons' = cons
    /\ UNCHANGED <<storeVars, modelVars, scipVar, scipNConss, scipBestSol,
                   scipConshdlrs, okVar, okCons, ghostVars, pc, crashed>>

\* createLinCons: failAt = 1 is SCIPcreateConsBasicLinear failing with rc,
\* failAt = 1 + i the SCIPaddCoefLinear of position i, 0 or beyond the last call
\* no failure. The result is the return code, the engine calls made, and the
\* object as the function leaves it (`created` FALSE: there is none)
createLinCons(store, indices, coefs, failAt, rc) ==
    LET n == Len(indices)
        create == <<Event("SCIPcreateConsBasicLinear")>>
        loopAt == IF failAt \in 2..(n + 1) THEN failAt - 1 ELSE 0
        loop == BatchCalls("SCIPaddCoefLinear", store, indices, coefs, loopAt, rc)
    IN  IF failAt = 1
        THEN [ret |-> retCodeSCIPtoCSIP(rc), calls |-> Returning(create, rc),
              created |-> FALSE, cons |-> NoCons]
        ELSE [ret |-> LoopRet(n, loopAt, rc), calls |-> create \o loop,
              created |-> TRUE,
              cons |-> NewCons("SCIPcreateConsBasicLinear",
                               TermsOf(loop, Applied(n, loopAt)))]

\* the index a constraint receives
ReportConsIdx_AfterIncrement(n, wantIdx) == IF wantIdx THEN n + 1 ELSE NoOut

ReportConsIdx(n, wantIdx) == IF wantIdx THEN n ELSE NoOut

\* addCons, called by builder op with the object it has created after the
\* engine calls `calls`
addCons(op, calls, created, wantIdx) ==
    \E rcAdd \in SCIP_RETCODES :
    \E reallocOk \in (IF rcAdd = SCIP_OKAY /\ NeedResize(nconss, consssize)
                      THEN BOOLEAN ELSE {TRUE}),
       segv \in (IF rcAdd = SCIP_OKAY /\ conss = NULLARRAY THEN BOOLEAN ELSE {FALSE}) :
        IF rcAdd # SCIP_OKAY
        THEN BuilderReturns(op, retCodeSCIPtoCSIP(rcAdd),
                            Returning(calls \o <<Event("SCIPaddCons")>>, rcAdd),
                            created)
        ELSE
          LET cons == scipNConss + 1
              grow == NeedResize(nconss, consssize)
              array == IF grow THEN Realloc(conss, reallocOk) ELSE conss
          IN  /\ scipNConss' = cons
              /\ scipCons' = [created EXCEPT !.nuses = @ + 1, !.handle = cons]
              /\ consssize' = IF grow THEN GrownSize(consssize) ELSE consssize
              /\ lastOp' = op
              /\ issued' = calls \o <<Event("SCIPaddCons")>>
              /\ UNCHANGED <<nvars, varssize, vars, modelVars, scipVar, scipBestSol,
                             scipConshdlrs, okVar, ghostVars, pc>>
              /\ IF grow /\ array = NULLARRAY
                 THEN /\ conss' = NULLARRAY
                      /\ ret' = CSIP_RETCODE_NOMEMORY
                      /\ out' = NoOut
                      /\ UNCHANGED <<nconss, okCons, crashed>>
                 ELSE IF array = NULLARRAY
                 THEN IF segv
                      THEN /\ crashed' = TRUE
                           /\ UNCHANGED <<nconss, conss, ret, out, okCons>>
                      ELSE /\ conss' = NULLARRAY
                           /\ nconss' = nconss + 1
                           /\ ret' = CSIP_RETCODE_OK
                           /\ out' = ReportConsIdx(nconss, wantIdx)
                           /\ okCons' = okCons + 1
                           /\ UNCHANGED crashed
                 ELSE /\ conss' = Append(array, cons)
                      /\ nconss' = nconss + 1
                      /\ ret' = CSIP_RETCODE_OK
                      /\ out' = ReportConsIdx(nconss, wantIdx)
                      /\ okCons' = okCons + 1
                      /\ UNCHANGED crashed

\* the builder reads model->vars[indices[i]]
ReadsLostVars(numindices) == numindices > 0 /\ vars = NULLARRAY

CSIPaddLinCons(indices, coefs, wantIdx) ==
    /\ Callable
    /\ \E failAt \in 0..(Len(indices) + 1) :
       \E rc \in EngineRc(failAt) :
        IF failAt # 1 /\ ReadsLostVars(Len(indices))
        THEN Segfault("CSIPaddLinCons")
        ELSE
          LET r == createLinCons(vars, indices, coefs, failAt, rc)
          IN  IF r.ret # CSIP_RETCODE_OK
              THEN BuilderReturns("CSIPaddLinCons", r.ret, r.calls,
                                  IF r.created THEN r.cons ELSE scipCons)
              ELSE addCons("CSIPaddLinCons", r.calls, r.cons, wantIdx)

\* the SCIPaddBilinTermQuadratic calls of CSIPaddQuadCons when the failAt-th
\* fails with rc (failAt = 0: none fails)
BilinCalls(store, rows, cols, coefs, failAt, rc) ==
    Returning([j \in 1..(IF failAt \in 1..Len(rows) THEN failAt ELSE Len(rows)) |->
                  [Call("SCIPaddBilinTermQuadratic", VarAt(store, rows[j]), coefs[j])
                      EXCEPT !.var2 = VarAt(store, cols[j])]],
              IF failAt \in 1..Len(rows) THEN rc ELSE SCIP_OKAY)

\* failAt = 1: SCIPcreateConsBasicQuadratic fails; 1 + i: the call of position
\* i of the linear loop; 1 + numlinindices + i: the call of position i of the
\* bilinear loop
CSIPaddQuadCons(linindices, lincoefs, quadrowindices, quadcolindices, quadcoefs, wantIdx) ==
    /\ Callable
    /\ LET nl == Len(linindices)
           nq == Len(quadrowindices)
       IN
       \E failAt \in 0..(nl + nq + 1) :
       \E rc \in EngineRc(failAt) :
        IF failAt # 1 /\ ReadsLostVars(nl + nq)
        THEN Segfault("CSIPaddQuadCons")
        ELSE
          LET create == <<Event("SCIPcreateConsBasicQuadratic")>>
              linAt == IF failAt \in 2..(nl + 1) THEN failAt - 1 ELSE 0
              quadAt == IF failAt > nl + 1 THEN failAt - 1 - nl ELSE 0
              lin == BatchCalls("SCIPaddLinearVarQuadratic", vars, linindices,
                                lincoefs, linAt, rc)
              quad == IF linAt # 0 THEN <<>>
                      ELSE BilinCalls(vars, quadrowindices, quadcolindices,
                                      quadcoefs, quadAt, rc)
              cons == NewCons("SCIPcreateConsBasicQuadratic",
                              TermsOf(lin, Applied(nl, linAt))
                                \o TermsOf(quad, IF linAt # 0 THEN 0
                                                 ELSE Applied(nq, quadAt)))
          IN  IF failAt = 1
              THEN BuilderReturns("CSIPaddQuadCons", retCodeSCIPtoCSIP(rc),
                                  Returning(create, rc), scipCons)
              ELSE IF failAt # 0
              THEN BuilderReturns("CSIPaddQuadCons", retCodeSCIPtoCSIP(rc),
                                  create \o lin \o quad, cons)
              ELSE addCons("CSIPaddQuadCons", create \o lin \o quad, cons, wantIdx)

\* fn is SCIPcreateConsBasicSOS1 or SCIPcreateConsBasicSOS2, which receives
\* the variables and the weights at once. A return after the malloc leaves
\* the local array of variables unfreed, which the model does not follow
CSIPaddSOS(op, fn, indices, weights, wantIdx) ==
    /\ Callable
    /\ \E mallocOk \in BOOLEAN :
       \E rcCreate \in (IF mallocOk THEN SCIP_RETCODES ELSE {SCIP_OKAY}) :
        IF ~mallocOk
        THEN Abort(op, CSIP_RETCODE_NOMEMORY)
        ELSE IF ReadsLostVars(Len(indices))
        THEN Segfault(op)
        ELSE IF rcCreate # SCIP_OKAY
        THEN BuilderReturns(op, retCodeSCIPtoCSIP(rcCreate),
                            Returning(<<Event(fn)>>, rcCreate), scipCons)
        ELSE addCons(op, <<Event(fn)>>,
                     NewCons(fn, [j \in 1..Len(indices) |->
                                     [var |-> VarAt(vars, indices[j]), var2 |-> 0,
                                      val |-> weights[j]]]),
                     wantIdx)

CSIPaddSOS1(indices, weights, wantIdx) ==
    CSIPaddSOS("CSIPaddSOS1", "SCIPcreateConsBasicSOS1", indices, weights, wantIdx)

CSIPaddSOS2(indices, weights, wantIdx) ==
    CSIPaddSOS("CSIPaddSOS2", "SCIPcreateConsBasicSOS2", indices, weights, wantIdx)

CSIPgetNumVars == nvars

(* ---------------------------- objective and sense --------------------- *)
CSIPsetObj(indices, coefs) ==
    /\ Callable
    /\ \E failAt \in 0..Len(indices) :
       \E rc \in EngineRc(failAt) :
        IF vars = NULLARRAY /\ Len(indices) > 0
        THEN Segfault("CSIPsetObj")
        ELSE
          LET n == Applied(Len(indices), failAt)
          IN  /\ scipVar' = BatchSet(scipVar, vars, indices, coefs, n, "obj")
              /\ userObj' = UserObjAfter(userObj, indices, coefs, n)
              /\ lastOp' = "CSIPsetObj"
              /\ ret' = LoopRet(Len(indices), failAt, rc)
              /\ out' = NoOut
              /\ issued' = BatchCalls("SCIPchgVarObj", vars, indices, coefs, failAt, rc)
              /\ UNCHANGED <<storeVars, modelVars, scipNConss, scipCons, scipBestSol,
                             scipConshdlrs, okVar, okCons, preObj, lastSearch,
                             pc, crashed>>

\* callable from user code at any time, also from inside a callback: while
\* SCIPsolve runs, user code runs only in the callbacks that are registered,
\* lazy or heuristic. On a model CSIPfreeModel has freed, "model->sense = ..."
\* writes through the pointer given to free(model): the write is undefined, it
\* kills the process or lands in the freed block and the call returns OK
CSIPsetSense(op, newsense) ==
    /\ ~crashed
    /\ pc = "search" => (Len(scipConshdlrs) > 0 \/ Len(heurdata) > 0)
    /\ \E segv \in (IF pc = "freed" THEN BOOLEAN ELSE {FALSE}) :
        IF segv
        THEN Segfault(op)
        ELSE /\ sense' = newsense
             /\ Return(op, CSIP_RETCODE_OK, NoOut)
             /\ UNCHANGED <<storeVars, initialsol, status, objbound, nlazycb, nheur,
                            engineVars, okVar, okCons, ghostVars, pc, crashed>>

CSIPsetSenseMinimize ==
    CSIPsetSense("CSIPsetSenseMinimize", MINIMIZE) /\ UNCHANGED sideVars

CSIPsetSenseMaximize ==
    CSIPsetSense("CSIPsetSenseMaximize", MAXIMIZE) /\ UNCHANGED sideVars

\* reformSenseMinimize: the engine's variables and the return code, when the
\* failAt-th SCIPchgVarObj call fails with rc (failAt = 0: none fails)
reformSenseMinimize(sns, n, store, evars, failAt, rc) ==
    IF sns = MAXIMIZE
    THEN [scipVar |->
            [var \in DOMAIN evars |->
                IF \E i \in 1..Applied(n, failAt) : store[i] = var
                THEN [evars[var] EXCEPT !.obj = (-1) * evars[var].obj]
                ELSE evars[var]],
          ret |-> LoopRet(n, failAt, rc)]
    ELSE [scipVar |-> evars, ret |-> CSIP_RETCODE_OK]

\* the positions at which the loop of reformSenseMinimize can fail
ReformFailAt(sns, n) == IF sns = MAXIMIZE THEN 0..n ELSE {0}

ObjOf(evars) == [var \in DOMAIN evars |-> evars[var].obj]

(* ---------------------------- the engine's search --------------------- *)
RECURSIVE Dot(_, _, _)
Dot(evars, vals, k) ==
    IF k = 0 THEN 0 ELSE evars[k].obj * vals[k] + Dot(evars, vals, k - 1)

\* the values a variable takes in the solutions of the engine
SolVals == {0, 1}

\* the complete assignments within the bounds that the search may end with,
\* each with the objective value the engine stores with it
Candidates(evars) ==
    {[null |-> FALSE, vals |-> x, obj |-> Dot(evars, x, Len(evars))] :
        x \in {y \in [DOMAIN evars -> SolVals] :
                 \A var \in DOMAIN evars :
                     evars[var].lb <= y[var] /\ y[var] <= evars[var].ub}}

SearchStatuses ==
    {"SCIP_STATUS_OPTIMAL", "SCIP_STATUS_INFEASIBLE", "SCIP_STATUS_TIMELIMIT"}

\* the best solutions the engine may hold when its search ends with status st
SearchSols(st, evars) ==
    CASE st = "SCIP_STATUS_OPTIMAL" -> Candidates(evars)
      [] st = "SCIP_STATUS_INFEASIBLE" -> {NULLSOL}
      [] OTHER -> Candidates(evars) \cup {NULLSOL}

\* the dual bounds the engine may report
DualBounds == {3}

getStatus_Collapsed(st) ==
    CASE st \in {"SCIP_STATUS_OPTIMAL"} -> "CSIP_STATUS_OPTIMAL"
      [] st \in {"SCIP_STATUS_INFEASIBLE"} -> "CSIP_STATUS_INFEASIBLE"
      [] st \in {"SCIP_STATUS_UNBOUNDED"} -> "CSIP_STATUS_UNBOUNDED"
      [] st \in {"SCIP_STATUS_INFORUNBD"} -> "CSIP_STATUS_INFORUNBD"
      [] st \in {"SCIP_STATUS_TIMELIMIT"} -> "CSIP_STATUS_TIMELIMIT"
      [] st \in {"SCIP_STATUS_MEMLIMIT"} -> "CSIP_STATUS_MEMLIMIT"
      [] st \in {"SCIP_STATUS_NODELIMIT"} -> "CSIP_STATUS_NODELIMIT"
      [] st \in {"SCIP_STATUS_USERINTERRUPT", "SCIP_STATUS_TOTALNODELIMIT",
                 "SCIP_STATUS_STALLNODELIMIT", "SCIP_STATUS_GAPLIMIT",
                 "SCIP_STATUS_SOLLIMIT", "SCIP_STATUS_BESTSOLLIMIT",
                 "SCIP_STATUS_RESTARTLIMIT"} -> "CSIP_STATUS_USERLIMIT"
      [] OTHER -> "CSIP_STATUS_UNKNOWN"

getStatus(st) ==
    CASE st = "SCIP_STATUS_UNKNOWN" -> "CSIP_STATUS_UNKNOWN"
      [] st = "SCIP_STATUS_USERINTERRUPT" -> "CSIP_STATUS_USERLIMIT"
      [] st = "SCIP_STATUS_NODELIMIT" -> "CSIP_STATUS_NODELIMIT"
      [] st = "SCIP_STATUS_TOTALNODELIMIT" -> "CSIP_STATUS_NODELIMIT"
      [] st = "SCIP_STATUS_STALLNODELIMIT" -> "CSIP_STATUS_USERLIMIT"
      [] st = "SCIP_STATUS_TIMELIMIT" -> "CSIP_STATUS_TIMELIMIT"
      [] st = "SCIP_STATUS_MEMLIMIT" -> "CSIP_STATUS_MEMLIMIT"
      [] st = "SCIP_STATUS_GAPLIMIT" -> "CSIP_STATUS_USERLIMIT"
      [] st = "SCIP_STATUS_SOLLIMIT" -> "CSIP_STATUS_USERLIMIT"
      [] st = "SCIP_STATUS_BESTSOLLIMIT" -> "CSIP_STATUS_USERLIMIT"
      [] st = "SCIP_STATUS_RESTARTLIMIT" -> "CSIP_STATUS_USERLIMIT"
      [] st = "SCIP_STATUS_OPTIMAL" -> "CSIP_STATUS_OPTIMAL"
      [] st = "SCIP_STATUS_INFEASIBLE" -> "CSIP_STATUS_INFEASIBLE"
      [] st = "SCIP_STATUS_UNBOUNDED" -> "CSIP_STATUS_UNBOUNDED"
      [] st = "SCIP_STATUS_INFORUNBD" -> "CSIP_STATUS_INFORUNBD"
      [] OTHER -> "CSIP_STATUS_UNKNOWN"

\* model->objbound = (model->sense == SCIP_OBJSENSE_MINIMIZE ? dual : -dual)
SignedBound_Unsigned(sns, dual) == dual

SignedBound(sns, dual) == IF sns = MINIMIZE THEN dual ELSE (-1) * dual

(* ---------------------------- solution objects ------------------------ *)
\* SCIPcreateSol: a new object, which nobody has released yet; its name is its
\* position in the ledger
SCIPcreateSol(ledger) == Append(ledger, [handed |-> 0, freed |-> 0])

\* SCIPfreeSol(scip, &sol): the object is released
SCIPfreeSol_Leak(ledger, sol) == ledger

SCIPfreeSol(ledger, sol) == [ledger EXCEPT ![sol].freed = @ + 1]

\* SCIPaddSolFree / SCIPtrySolFree: the object is handed to the engine, which
\* releases the caller's reference whether or not it stores the solution
SCIPhandSolFree(ledger, sol) == [ledger EXCEPT ![sol].handed = @ + 1]

\* the caller's pointer after SCIPfreeSol, SCIPaddSolFree or SCIPtrySolFree
\* returned SCIP_OKAY
Cleared_Kept(sol) == sol

Cleared(sol) == NULL

(* ---------------------------- CSIPsolve ------------------------------- *)
\* the SCIPchgVarObj calls a reformSenseMinimize makes when its failAt-th
\* call fails (failAt = 0: none fails)
ReformCalls(sns, n, failAt) ==
    IF sns = MAXIMIZE
    THEN [i \in 1..(IF failAt \in 1..n THEN failAt ELSE n) |-> Event("SCIPchgVarObj")]
    ELSE <<>>

\* CSIPsolve up to the point where SCIPsolve has been entered
CSIPsolve_Enter ==
    /\ Callable
    /\ \E failAt \in ReformFailAt(sense, nvars) :
       \E rc \in EngineRc(failAt),
          rcSol \in (IF failAt = 0 /\ initialsol # NULL
                     THEN SCIP_RETCODES ELSE {SCIP_OKAY}) :
        IF sense = MAXIMIZE /\ nvars > 0 /\ vars = NULLARRAY
        THEN Segfault("CSIPsolve") /\ UNCHANGED sols
        ELSE
          LET r == reformSenseMinimize(sense, nvars, vars, scipVar, failAt, rc)
              reform == ReformCalls(sense, nvars, failAt)
              addSol == IF initialsol # NULL
                        THEN <<Event("SCIPaddSolFree")>> ELSE <<>>
          IN  /\ scipVar' = r.scipVar
              /\ lastOp' = "CSIPsolve"
              /\ UNCHANGED <<storeVars, sense, status, objbound, nlazycb, nheur,
                             scipNConss, scipCons, scipBestSol, scipConshdlrs, okVar,
                             okCons, userObj, lastSearch, crashed>>
              /\ IF r.ret # CSIP_RETCODE_OK
                 THEN /\ ret' = r.ret
                      /\ out' = NoOut
                      /\ issued' = Returning(reform, rc)
                      /\ UNCHANGED <<initialsol, sols, pc, preObj>>
                 ELSE IF rcSol # SCIP_OKAY
                 THEN /\ ret' = retCodeSCIPtoCSIP(rcSol)
                      /\ out' = NoOut
                      /\ issued' = Returning(reform \o addSol, rcSol)
                      /\ UNCHANGED <<initialsol, sols, pc, preObj>>
                 ELSE /\ initialsol' = (IF initialsol # NULL
                                        THEN Cleared(initialsol) ELSE initialsol)
                      /\ sols' = (IF initialsol # NULL
                                  THEN SCIPhandSolFree(sols, initialsol) ELSE sols)
                      /\ pc' = "search"
                      /\ preObj' = ObjOf(scipVar)
                      /\ issued' = reform \o addSol \o <<Event("SCIPsolve")>>
                      /\ UNCHANGED <<ret, out>>

\* the engine calls of CSIPsolve between SCIPsolve and the second
\* reformSenseMinimize, the failing one included when rcFree is not SCIP_OKAY
LeaveCalls_DiscardFirst ==
    <<Event("SCIPfreeTransform"), Event("SCIPgetStatus"), Event("SCIPgetDualbound")>>

LeaveCalls ==
    <<Event("SCIPgetStatus"), Event("SCIPgetDualbound"), Event("SCIPfreeTransform")>>

\* SCIPsolve returns rcSolve, with status st and best solution sol when it is
\* SCIP_OKAY, and CSIPsolve runs to its end. The second reformSenseMinimize
\* reads model->vars[i]: under MAXIMIZE, with variables and the array lost, the
\* process dies there, when SCIPsolve and SCIPfreeTransform have returned OK
CSIPsolve_Leave(rcSolve, st, sol) ==
    /\ pc = "search"
    /\ ~crashed
    /\ IF rcSolve # SCIP_OKAY
       THEN /\ pc' = "idle"
            /\ preObj' = <<>>
            /\ lastOp' = "CSIPsolve"
            /\ out' = NoOut
            /\ ret' = retCodeSCIPtoCSIP(rcSolve)
            /\ issued' = IF Len(issued) > 0 /\ issued[Len(issued)].fn = "SCIPsolve"
                         THEN Returning(issued, rcSolve) ELSE issued
            /\ UNCHANGED <<storeVars, sense, initialsol, nlazycb, nheur, scipNConss,
                           scipCons, scipConshdlrs, okVar, okCons, userObj, crashed,
                           status, objbound, scipVar, scipBestSol, lastSearch>>
       ELSE
         \E dual \in DualBounds, rcFree \in SCIP_RETCODES :
           IF rcFree = SCIP_OKAY /\ sense = MAXIMIZE /\ nvars > 0 /\ vars = NULLARRAY
           THEN Segfault("CSIPsolve")
           ELSE
             \E failAt \in (IF rcFree = SCIP_OKAY
                            THEN ReformFailAt(sense, nvars) ELSE {0}) :
             \E rc \in EngineRc(failAt) :
               LET r == reformSenseMinimize(sense, nvars, vars, scipVar, failAt, rc)
               IN  /\ pc' = "idle"
                   /\ preObj' = <<>>
                   /\ lastOp' = "CSIPsolve"
                   /\ out' = NoOut
                   /\ UNCHANGED <<storeVars, sense, initialsol, nlazycb, nheur,
                                  scipNConss, scipCons, scipConshdlrs, okVar, okCons,
                                  userObj, crashed>>
                   /\ status' = getStatus(st)
                   /\ objbound' = SignedBound(sense, dual)
                   /\ lastSearch' = [n |-> 1, status |-> st, dual |-> dual,
                                     sense |-> sense]
                   /\ scipBestSol' = sol
                   /\ IF rcFree # SCIP_OKAY
                      THEN /\ ret' = retCodeSCIPtoCSIP(rcFree)
                           /\ issued' = Returning(issued \o LeaveCalls, rcFree)
                           /\ UNCHANGED scipVar
                      ELSE /\ scipVar' = r.scipVar
                           /\ ret' = r.ret
                           /\ issued' = Returning(issued \o LeaveCalls
                                                    \o ReformCalls(sense, nvars, failAt),
                                                    rc)

\* what SCIPsolve may end with: its return code, and the status and the best
\* solution of the search over the engine's variables evars
SearchEnds(evars) ==
    UNION {{<<SCIP_OKAY, st, sol>> : sol \in SearchSols(st, evars)} :
              st \in SearchStatuses}
    \cup {<<rc, "SCIP_STATUS_UNKNOWN", NULLSOL>> : rc \in SCIP_RETCODES \ {SCIP_OKAY}}

\* what a solve call outside a plugin leaves alone besides the model
solveSide == <<twin, conshdlrdata, heurdata, running>>

SolveStart == CSIPsolve_Enter /\ UNCHANGED solveSide

SolveFinish ==
    \E e \in SearchEnds(scipVar) : CSIPsolve_Leave(e[1], e[2], e[3]) /\ UNCHANGED sideVars

CSIPgetStatus == status

CSIPgetObjBound == objbound

\* the double CSIPgetObjValue returns
CSIPgetObjValue(sns, sol) ==
    IF sol = NULLSOL
    THEN CSIP_RETCODE_ERROR
    ELSE IF sns = MINIMIZE THEN sol.obj ELSE (-1) * sol.obj

\* the values of a solution for the handles of a store (0 for a variable the
\* solution does not know)
SolVals_Of(sol, n, store) ==
    [i \in 1..n |-> IF store[i] \in DOMAIN sol.vals THEN sol.vals[store[i]] ELSE 0]

\* CSIPgetVarValues: the return code and the output array
CSIPgetVarValues(sol, n, store) ==
    IF sol = NULLSOL
    THEN [ret |-> CSIP_RETCODE_ERROR, output |-> <<>>]
    ELSE [ret |-> CSIP_RETCODE_OK, output |-> SolVals_Of(sol, n, store)]

(* ---------------------------- bounds and types ------------------------ *)
CSIPchgVarBound(op, fn, fld, indices, bounds) ==
    /\ Callable
    /\ \E failAt \in 0..Len(indices) :
       \E rc \in EngineRc(failAt) :
        IF vars = NULLARRAY /\ Len(indices) > 0
        THEN Segfault(op)
        ELSE /\ scipVar' = BatchSet(scipVar, vars, indices, bounds,
                                    Applied(Len(indices), failAt), fld)
             /\ lastOp' = op
             /\ ret' = LoopRet(Len(indices), failAt, rc)
             /\ out' = NoOut
             /\ issued' = BatchCalls(fn, vars, indices, bounds, failAt, rc)
             /\ UNCHANGED <<storeVars, modelVars, scipNConss, scipCons, scipBestSol,
                            scipConshdlrs, okVar, okCons, ghostVars, pc, crashed>>

CSIPchgVarLB(indices, lowerbounds) ==
    CSIPchgVarBound("CSIPchgVarLB", "SCIPchgVarLb", "lb", indices, lowerbounds)

CSIPchgVarUB(indices, upperbounds) ==
    CSIPchgVarBound("CSIPchgVarUB", "SCIPchgVarUb", "ub", indices, upperbounds)

\* the two tests of CSIPchgVarType
ClampsLb(vartype, lb) == vartype = "BINARY" /\ lb < 0

ClampsUb(vartype, ub) == vartype = "BINARY" /\ ub > 1

\* failAt = 1: SCIPchgVarType fails; 2: the SCIPchgVarLb call, when made, fails;
\* 3: the SCIPchgVarUb call, when made, fails
CSIPchgVarType(varindex, vartype) ==
    /\ Callable
    /\ \E failAt \in 0..3 :
       \E rc \in EngineRc(failAt) :
        IF vars = NULLARRAY
        THEN Segfault("CSIPchgVarType")
        ELSE
          LET var == VarAt(vars, varindex)
              old == scipVar[var]
              typeOk == failAt # 1
              doLb == typeOk /\ ClampsLb(vartype, old.lb)
              lbOk == ~(doLb /\ failAt = 2)
              doUb == typeOk /\ lbOk /\ ClampsUb(vartype, old.ub)
              ubOk == ~(doUb /\ failAt = 3)
              new == [old EXCEPT
                        !.vartype = IF typeOk THEN vartype ELSE @,
                        !.lb = IF doLb /\ lbOk THEN 0 ELSE @,
                        !.ub = IF doUb /\ ubOk THEN 1 ELSE @]
          IN  /\ scipVar' = [scipVar EXCEPT ![var] = new]
              /\ lastOp' = "CSIPchgVarType"
              /\ ret' = IF typeOk /\ lbOk /\ ubOk
                        THEN CSIP_RETCODE_OK ELSE retCodeSCIPtoCSIP(rc)
              /\ out' = NoOut
              /\ issued' = Returning(
                              <<Call("SCIPchgVarType", var, vartype)>>
                                \o (IF doLb THEN <<Call("SCIPchgVarLb", var, 0)>> ELSE <<>>)
                                \o (IF doUb THEN <<Call("SCIPchgVarUb", var, 1)>> ELSE <<>>),
                              IF typeOk /\ lbOk /\ ubOk THEN SCIP_OKAY ELSE rc)
              /\ UNCHANGED <<storeVars, modelVars, scipNConss, scipCons, scipBestSol,
                             scipConshdlrs, okVar, okCons, ghostVars, pc, crashed>>

(* ---------------------------- callbacks ------------------------------- *)
Min(a, b) == IF a < b THEN a ELSE b

Max(a, b) == IF a > b THEN a ELSE b

\* a pointer that is neither null nor a solution object of this model
Garbage == -999

\* the memory SCIPallocMemory returns for the handler data is not initialised:
\* the three fields CSIPaddLazyCallback does not set hold whatever the block
\* held: any two flags, and a pointer that is null, that of a solution object
\* (a block used before as handler data) or anything else
Uninitialised ==
    [checkonly : BOOLEAN, feasible : BOOLEAN, sol : {NULL, 1, Garbage}]

\* "it is -1 or 1 because cons_integral has priority 0"
LazyPriority(fractional) == IF fractional THEN -1 ELSE 1

\* failAt = 1: SCIPallocMemory fails; 2: SCIPincludeConshdlrBasic fails;
\* 3: SCIPsetConshdlrFree fails, after the handler has been included.
\* `fractional` in the handler's record is the flag of the registration, kept
\* to state what the caller asked for
CSIPaddLazyCallback(fractional, memory) ==
    /\ Callable
    /\ \E failAt \in 0..3 :
       \E rc \in EngineRc(failAt) :
        /\ scipConshdlrs' =
              IF failAt \in {1, 2} THEN scipConshdlrs
              ELSE Append(scipConshdlrs,
                          [name |-> nlazycb,
                           priority |-> LazyPriority(fractional),
                           fractional |-> fractional])
        /\ conshdlrdata' =
              IF failAt \in {1, 2} THEN conshdlrdata
              ELSE Append(conshdlrdata, memory)
        /\ nlazycb' = IF failAt = 0 THEN nlazycb + 1 ELSE nlazycb
        /\ Return("CSIPaddLazyCallback",
                  IF failAt = 0 THEN CSIP_RETCODE_OK ELSE retCodeSCIPtoCSIP(rc),
                  NoOut)
        /\ UNCHANGED <<storeVars, sense, initialsol, status, objbound, nheur,
                       scipVar, scipNConss, scipCons, scipBestSol, okVar, okCons,
                       ghostVars, pc, crashed>>

\* what a registration of a lazy callback leaves alone besides the model
lazySide == <<twin, sols, heurdata, running>>

(* ---------------------------- lazy plugin ----------------------------- *)
SCIP_FEASIBLE == "SCIP_FEASIBLE"
SCIP_INFEASIBLE == "SCIP_INFEASIBLE"
SCIP_CONSADDED == "SCIP_CONSADDED"
SCIP_STAGE_SOLVING == "SCIP_STAGE_SOLVING"
SCIP_STAGE_SOLVED == "SCIP_STAGE_SOLVED"

\* the priority of the engine's integrality handler
CONS_INTEGRAL_ENFOPRIORITY == 0

\* the engine enforces with its handlers in decreasing enforcement priority:
\* a handler above the integrality handler is called before it, on every
\* candidate; one below it after it, on the candidates it has let through
EnforcedBeforeIntegrality(priority) == priority > CONS_INTEGRAL_ENFOPRIORITY

\* the candidates the engine hands to a check, as solution objects of the engine
CheckedSols == {1}

\* the part of a handler's invocation before the user callback runs
\* (consEnfolpLazy 673-677, consCheckLazy 702-707)
ResetVerdict_Kept(data) == data

ResetVerdict(data) == [data EXCEPT !.feasible = TRUE]

\* the invocations of a lazy plugin
LazyKinds == {"enfolp", "enfops", "check"}

\* the handler data when the user callback of handler h starts
consPrologue(kind, h, sol) ==
    [conshdlrdata EXCEPT
        ![h] = IF kind = "check"
               THEN [ResetVerdict(@) EXCEPT !.checkonly = TRUE, !.sol = sol]
               ELSE [ResetVerdict(@) EXCEPT !.checkonly = FALSE]]

consEnter(kind, h, stage, sol) ==
    /\ pc = "search"
    /\ ~crashed
    /\ ~running.active
    /\ h \in 1..Len(scipConshdlrs)
    /\ conshdlrdata' = consPrologue(kind, h, sol)
    /\ running' = [NoCall EXCEPT !.active = TRUE, !.kind = kind, !.hdlr = h,
                                  !.stage = stage, !.sol = sol,
                                  !.result = SCIP_FEASIBLE]
    /\ UNCHANGED <<storeVars, modelVars, engineVars, callVars, ghostVars, issued,
                   pc, crashed, twin, sols, heurdata>>

\* the engine enforces a candidate while it solves
consEnfolpLazy ==
    \E h \in 1..Len(scipConshdlrs) : consEnter("enfolp", h, SCIP_STAGE_SOLVING, NULL)

\* "enfo pseudo solution just call enfo lp solution"
consEnfopsLazy ==
    \E h \in 1..Len(scipConshdlrs) : consEnter("enfops", h, SCIP_STAGE_SOLVING, NULL)

\* the engine checks a candidate, while it solves or when it has solved
consCheckLazy ==
    \E h \in 1..Len(scipConshdlrs), sol \in CheckedSols,
       stage \in {SCIP_STAGE_SOLVING, SCIP_STAGE_SOLVED} :
        consEnter("check", h, stage, sol)

\* the result a handler reports when the user callback has returned OK
consResult(kind, feasible) ==
    IF feasible THEN SCIP_FEASIBLE
    ELSE IF kind = "check" THEN SCIP_INFEASIBLE ELSE SCIP_CONSADDED

\* the engine checks the candidate of a heuristic inside SCIPtrySolFree
\* (heurExecUser 900-901), with the check of every handler in turn, as long as
\* none fails or finds the candidate infeasible: the user callback of the
\* heuristic has returned OK with the slot filled, or the check of the handler
\* before has returned. running.supplied keeps what the heuristic's callback
\* supplied
consCheckLazy_TrySol ==
    /\ pc = "search"
    /\ ~crashed
    /\ running.active
    /\ running.kind \in {"heur", "try"}
    /\ LET g == running.heur
           h == IF running.kind = "heur" THEN 1 ELSE running.hdlr + 1
       IN  /\ heurdata[g].sol # NULL
           /\ h \in 1..Len(scipConshdlrs)
           /\ running.kind = "try"
                 => running.rc = SCIP_OKAY /\ running.result = SCIP_FEASIBLE
           /\ conshdlrdata' = consPrologue("check", h, heurdata[g].sol)
           /\ running' = [NoCall EXCEPT !.active = TRUE, !.kind = "check",
                                         !.hdlr = h, !.stage = SCIP_STAGE_SOLVING,
                                         !.sol = heurdata[g].sol,
                                         !.result = SCIP_FEASIBLE,
                                         !.heur = g, !.supplied = running.supplied]
    /\ UNCHANGED <<storeVars, modelVars, engineVars, callVars, ghostVars, issued,
                   pc, crashed, twin, sols, heurdata>>

\* the user callback returns csipRetCode and the handler returns to the engine;
\* in a check of a heuristic's candidate the engine is then back inside
\* SCIPtrySolFree ("try"), the handler just checked in running.hdlr
consLeave ==
    /\ running.active
    /\ running.kind \in LazyKinds
    /\ ~crashed
    /\ \E csipRetCode \in {CSIP_RETCODE_OK, CSIP_RETCODE_ERROR, CSIP_RETCODE_NOMEMORY} :
        LET rc == retCodeCSIPtoSCIP(csipRetCode)
            result == IF csipRetCode = CSIP_RETCODE_OK
                      THEN consResult(running.kind,
                                      conshdlrdata[running.hdlr].feasible)
                      ELSE SCIP_FEASIBLE
        IN  running' = IF running.heur = 0
                       THEN [NoCall EXCEPT !.rc = rc, !.result = result]
                       ELSE [NoCall EXCEPT !.active = TRUE, !.kind = "try",
                                           !.hdlr = running.hdlr,
                                           !.stage = SCIP_STAGE_SOLVING,
                                           !.sol = running.supplied,
                                           !.rc = rc, !.result = result,
                                           !.heur = running.heur,
                                           !.supplied = running.supplied]
    /\ UNCHANGED <<storeVars, modelVars, engineVars, callVars, ghostVars, issued,
                   pc, crashed, twin, sols, conshdlrdata, heurdata>>

\* "returns LP or given solution depending whether we are called from check or
\* enfo"
TargetSol_Stale(cbdata) == cbdata.sol

TargetSol(cbdata) == IF cbdata.checkonly THEN cbdata.sol ELSE NULL

\* the output is written as the solution whose values are copied
CSIPcbGetVarValues ==
    /\ running.active
    /\ running.kind \in LazyKinds
    /\ ~crashed
    /\ IF nvars > 0 /\ vars = NULLARRAY
       THEN Segfault("CSIPcbGetVarValues")
       ELSE /\ lastOp' = "CSIPcbGetVarValues"
            /\ ret' = CSIP_RETCODE_OK
            /\ out' = TargetSol(conshdlrdata[running.hdlr])
            /\ issued' = [i \in 1..nvars |->
                            Call("SCIPgetSolVal", VarAt(vars, i - 1),
                                 TargetSol(conshdlrdata[running.hdlr]))]
            /\ UNCHANGED <<storeVars, modelVars, engineVars, okVar, okCons,
                           ghostVars, pc, crashed>>
    /\ UNCHANGED sideVars

\* "if (SCIPgetStage(scip) == SCIP_STAGE_SOLVED)"
ShortCircuits_Never(stage) == FALSE

ShortCircuits(stage) == stage = SCIP_STAGE_SOLVED

\* "if (!cbdata->checkonly)": the constraint is added to the search
Attaches_Always(cbdata) == TRUE

Attaches(cbdata) == ~cbdata.checkonly

\* the engine calls of CSIPcbAddLinCons after createLinCons; the check is
\* logged with the solution it is made against and with its result (1 for
\* SCIP_INFEASIBLE)
LazyCalls(cbdata, result) ==
    <<Call("SCIPcheckCons", TargetSol(cbdata),
           IF result = SCIP_INFEASIBLE THEN 1 ELSE 0)>>
      \o (IF Attaches(cbdata) THEN <<Event("SCIPaddCons")>> ELSE <<>>)
      \o <<Event("SCIPreleaseCons")>>

\* failIn > 0: createLinCons fails at the failIn-th of its engine calls;
\* failAt > 0: the failAt-th call of LazyCalls fails; at most one call fails.
\* `result` is what SCIPcheckCons reports
CSIPcbAddLinCons(indices, coefs) ==
    /\ running.active
    /\ running.kind \in LazyKinds
    /\ ~crashed
    /\ LET h == running.hdlr
           cbdata == conshdlrdata[h]
       IN
       IF ShortCircuits(running.stage)
       THEN /\ conshdlrdata' = [conshdlrdata EXCEPT ![h].feasible = TRUE]
            /\ Return("CSIPcbAddLinCons", CSIP_RETCODE_OK, NoOut)
            /\ UNCHANGED <<storeVars, modelVars, engineVars, okVar, okCons,
                           ghostVars, pc, crashed, running>>
       ELSE
         \E failIn \in 0..(Len(indices) + 1),
            failAt \in 0..Len(LazyCalls(cbdata, SCIP_FEASIBLE)),
            result \in {SCIP_FEASIBLE, SCIP_INFEASIBLE} :
         \E rc \in EngineRc(failIn + failAt) :
           IF failIn # 1 /\ ReadsLostVars(Len(indices))
           THEN /\ failAt = 0
                /\ result = SCIP_FEASIBLE
                /\ Segfault("CSIPcbAddLinCons")
                /\ UNCHANGED <<conshdlrdata, running>>
           ELSE
             LET r == createLinCons(vars, indices, coefs, failIn, rc)
                 tail == LazyCalls(cbdata, result)
                 made == IF failIn # 0 THEN <<>>
                         ELSE IF failAt = 0 THEN tail ELSE SubSeq(tail, 1, failAt)
                 checks == failIn = 0 /\ failAt # 1
                 attached == /\ failIn = 0
                             /\ Attaches(cbdata)
                             /\ failAt \in {0, 3}
                 released == failIn = 0 /\ failAt = 0
             IN
             /\ failIn # 0 => failAt = 0
             /\ ~checks => result = SCIP_FEASIBLE
             /\ conshdlrdata' =
                   IF checks /\ result = SCIP_INFEASIBLE
                   THEN [conshdlrdata EXCEPT ![h].feasible = FALSE]
                   ELSE conshdlrdata
             /\ running' =
                   [running EXCEPT
                       !.violated = @ \/ (checks /\ result = SCIP_INFEASIBLE)]
             /\ scipCons' =
                   IF ~r.created THEN scipCons
                   ELSE [r.cons EXCEPT
                            !.nuses = @ + (IF attached THEN 1 ELSE 0)
                                        - (IF released THEN 1 ELSE 0)]
             /\ lastOp' = "CSIPcbAddLinCons"
             /\ ret' = IF failIn + failAt = 0
                       THEN CSIP_RETCODE_OK ELSE retCodeSCIPtoCSIP(rc)
             /\ out' = NoOut
             /\ issued' = Returning(r.calls \o made, rc)
             /\ UNCHANGED <<storeVars, modelVars, scipVar, scipNConss, scipBestSol,
                            scipConshdlrs, okVar, okCons, ghostVars, pc, crashed>>
    /\ UNCHANGED <<twin, sols, heurdata>>

(* ---------------------------- heuristic plugin ------------------------ *)
SCIP_DIDNOTFIND == "SCIP_DIDNOTFIND"
SCIP_FOUNDSOL == "SCIP_FOUNDSOL"

\* failAt = 1: SCIPallocMemory fails; 2: SCIPincludeHeurBasic fails;
\* 3: SCIPsetHeurFree fails, after the heuristic has been included and its
\* data filled in
CSIPaddHeuristicCallback ==
    /\ Callable
    /\ \E failAt \in 0..3 :
       \E rc \in EngineRc(failAt) :
        /\ heurdata' =
              IF failAt \in {1, 2} THEN heurdata
              ELSE Append(heurdata, [name |-> nheur, sol |-> NULL])
        /\ nheur' = IF failAt = 0 THEN nheur + 1 ELSE nheur
        /\ Return("CSIPaddHeuristicCallback",
                  IF failAt = 0 THEN CSIP_RETCODE_OK ELSE retCodeSCIPtoCSIP(rc),
                  NoOut)
        /\ UNCHANGED <<storeVars, sense, initialsol, status, objbound, nlazycb,
                       engineVars, okVar, okCons, ghostVars, pc, crashed,
                       twin, sols, conshdlrdata, running>>

\* the engine runs heuristic h: "*result = SCIP_DIDNOTFIND;
\* assert(heurdata->sol == NULL);". With assertions compiled in, a slot that is
\* not empty ends the process; without them the callback runs
heurExecUser_Enter ==
    /\ pc = "search"
    /\ ~crashed
    /\ ~running.active
    /\ \E h \in 1..Len(heurdata), asserts \in BOOLEAN :
        IF heurdata[h].sol # NULL /\ asserts
        THEN /\ crashed' = TRUE
             /\ UNCHANGED running
        ELSE /\ running' = [NoCall EXCEPT !.active = TRUE, !.kind = "heur",
                                           !.hdlr = h, !.stage = SCIP_STAGE_SOLVING,
                                           !.result = SCIP_DIDNOTFIND,
                                           !.heur = h]
             /\ UNCHANGED crashed
    /\ UNCHANGED <<storeVars, modelVars, engineVars, callVars, ghostVars, issued,
                   pc, twin, sols, conshdlrdata, heurdata>>

\* "SCIPcreateSol(model->scip, &heurdata->sol, heurdata->heur)": the new object
\* takes the slot, whatever the slot held
Slot(old, new) == new

\* failAt = 1: SCIPcreateSol fails; 2: SCIPsetSolVals fails, the object created.
\* running.sol notes the object this invocation's callback has supplied
CSIPheurSetSolution ==
    /\ running.active
    /\ running.kind = "heur"
    /\ ~crashed
    /\ \E failAt \in 0..2 :
       \E rc \in EngineRc(failAt) :
        IF failAt # 1 /\ nvars > 0 /\ vars = NULLARRAY
        THEN Segfault("CSIPheurSetSolution") /\ UNCHANGED <<sols, heurdata, running>>
        ELSE /\ sols' = IF failAt = 1 THEN sols ELSE SCIPcreateSol(sols)
             /\ running' = IF failAt = 1 THEN running
                           ELSE [running EXCEPT !.sol = Len(sols) + 1,
                                                !.supplied = Len(sols) + 1]
             /\ heurdata' =
                   IF failAt = 1 THEN heurdata
                   ELSE [heurdata EXCEPT
                            ![running.hdlr].sol = Slot(@, Len(sols) + 1)]
             /\ Return("CSIPheurSetSolution",
                       IF failAt = 0 THEN CSIP_RETCODE_OK ELSE retCodeSCIPtoCSIP(rc),
                       NoOut)
             /\ UNCHANGED <<storeVars, modelVars, engineVars, okVar, okCons,
                            ghostVars, pc, crashed>>
    /\ UNCHANGED <<twin, conshdlrdata>>

\* the user callback returns csipRetCode: the plugin returns at once when it
\* is not OK, else it submits the solution in the slot with SCIPtrySolFree,
\* which releases it and empties the slot whether or not the engine stores it
\* (`stored`, kept in running.stored). The step is the return of heurExecUser
\* to the engine: from the user callback when the engine checks the candidate
\* with no lazy handler (none is registered, or it rejects the candidate before
\* it asks them, or it fails), else from SCIPtrySolFree ("try") after the last
\* check the engine made: a check that failed ends the call with its code, one
\* that found the candidate infeasible ends it unstored, and the engine stores
\* a candidate only after the checks of all handlers
heurExecUser_Leave ==
    /\ running.active
    /\ running.kind \in {"heur", "try"}
    /\ ~crashed
    /\ LET h == running.heur
           sol == heurdata[h].sol
           tried == running.kind = "try"
       IN
       \E csipRetCode \in {CSIP_RETCODE_OK, CSIP_RETCODE_ERROR, CSIP_RETCODE_NOMEMORY},
          rcTry \in SCIP_RETCODES, stored \in BOOLEAN :
        /\ tried => csipRetCode = CSIP_RETCODE_OK
        /\ (csipRetCode # CSIP_RETCODE_OK \/ sol = NULL) => rcTry = SCIP_OKAY
        /\ (csipRetCode # CSIP_RETCODE_OK \/ sol = NULL \/ rcTry # SCIP_OKAY)
              => ~stored
        /\ (~tried /\ stored) => Len(scipConshdlrs) = 0
        /\ tried =>
              IF running.rc # SCIP_OKAY THEN rcTry = running.rc
              ELSE IF running.result = SCIP_INFEASIBLE
              THEN rcTry = SCIP_OKAY /\ ~stored
              ELSE running.hdlr = Len(scipConshdlrs)
        /\ IF csipRetCode = CSIP_RETCODE_OK /\ sol # NULL /\ rcTry = SCIP_OKAY
           THEN /\ sols' = SCIPhandSolFree(sols, sol)
                /\ heurdata' = [heurdata EXCEPT ![h].sol = Cleared(@)]
           ELSE UNCHANGED <<sols, heurdata>>
        /\ running' = [NoCall EXCEPT
                          !.rc = IF csipRetCode # CSIP_RETCODE_OK
                                 THEN retCodeCSIPtoSCIP(csipRetCode) ELSE rcTry,
                          !.stored = stored,
                          !.result = IF stored THEN SCIP_FOUNDSOL ELSE SCIP_DIDNOTFIND]
    /\ UNCHANGED <<storeVars, modelVars, engineVars, callVars, ghostVars, issued,
                   pc, crashed, twin, conshdlrdata>>

(* ---------------------------- initial solution, free ------------------ *)
\* failAt = 1: SCIPfreeSol fails (called when a solution is pending);
\* 2: SCIPcreateSol fails; 3: SCIPsetSolVals fails
CSIPsetInitialSolution ==
    /\ Callable
    /\ \E failAt \in (IF initialsol # NULL THEN 0..3 ELSE {0, 2, 3}) :
       \E rc \in EngineRc(failAt) :
        IF failAt # 1 /\ failAt # 2 /\ nvars > 0 /\ vars = NULLARRAY
        THEN Segfault("CSIPsetInitialSolution") /\ UNCHANGED sideVars
        ELSE
          LET freed == IF initialsol # NULL /\ failAt # 1
                       THEN SCIPfreeSol(sols, initialsol) ELSE sols
              slot == IF initialsol # NULL /\ failAt # 1
                      THEN Cleared(initialsol) ELSE initialsol
          IN  /\ sols' = IF failAt \in {1, 2} THEN freed ELSE SCIPcreateSol(freed)
              /\ initialsol' = IF failAt \in {1, 2} THEN slot ELSE Len(freed) + 1
              /\ Return("CSIPsetInitialSolution",
                        IF failAt = 0 THEN CSIP_RETCODE_OK ELSE retCodeSCIPtoCSIP(rc),
                        NoOut)
              /\ UNCHANGED <<storeVars, sense, status, objbound, nlazycb, nheur,
                             engineVars, okVar, okCons, ghostVars, pc, crashed,
                             twin, conshdlrdata, heurdata, running>>

\* consLockLazy, which the engine calls for every lazy handler while it frees
\* the problem ("SCIPfree ... will call the lock method again which works on
\* the vars stored at model"): one SCIPaddVarLocks per handler and variable
LockNCalls == Len(scipConshdlrs) * nvars

\* the k-th of them: handler by handler, the variables in index order
LockCallAt(k) ==
    Call("SCIPaddVarLocks", VarAt(vars, (k - 1) % nvars), ((k - 1) \div nvars) + 1)

\* the calls made when the failAt-th fails (all of them when failAt = 0):
\* "SCIP_CALL(SCIPaddVarLocks(...))" returns at the first call that fails
LockCalls(failAt) ==
    [k \in 1..(IF failAt = 0 THEN LockNCalls ELSE failAt) |-> LockCallAt(k)]

\* the engine calls CSIPfreeModel makes before SCIPfree, and SCIPfree:
\* SCIPfreeSol when a solution is pending, a SCIPreleaseVar per variable, a
\* SCIPreleaseCons per constraint
FreeNCalls == (IF initialsol # NULL THEN 1 ELSE 0) + nvars + nconss + 1

\* the k-th of them
FreeCallAt(k) ==
    LET pre == IF initialsol # NULL THEN 1 ELSE 0
    IN  IF k <= pre THEN Call("SCIPfreeSol", initialsol, 0)
        ELSE IF k <= pre + nvars
        THEN Call("SCIPreleaseVar", VarAt(vars, k - pre - 1), 0)
        ELSE IF k <= pre + nvars + nconss
        THEN Call("SCIPreleaseCons", VarAt(conss, k - pre - nvars - 1), 0)
        ELSE Event("SCIPfree")

\* the engine calls of CSIPfreeModel, in the order it makes them
FreeCalls == [k \in 1..FreeNCalls |-> FreeCallAt(k)]

\* "free(model->conss); free(model->vars); free(model);"
FreeArrays ==
    <<Event("free(model->conss)"), Event("free(model->vars)"), Event("free(model)")>>

\* the first engine call the teardown cannot make because the process dies on
\* the way to it (0: none): the first SCIPreleaseVar when the variable array
\* is lost, the first SCIPreleaseCons when the constraint array is lost, the
\* SCIPreleaseCons of an entry an earlier teardown has released
FreeCrashAt ==
    LET pre == IF initialsol # NULL THEN 1 ELSE 0
    IN  IF nvars > 0 /\ vars = NULLARRAY THEN pre + 1
        ELSE IF nconss > 0 /\ conss = NULLARRAY THEN pre + nvars + 1
        ELSE IF \E i \in 1..nconss : conss[i] = NULL
        THEN pre + nvars + (CHOOSE i \in 1..nconss :
                               /\ conss[i] = NULL
                               /\ \A j \in 1..(i - 1) : conss[j] # NULL)
        ELSE 0

\* "SCIPreleaseCons(model->scip, &model->conss[i])" sets the entry to NULL:
\* the store after the first `released` constraints have been released
ReleasedConss(store, released) ==
    [i \in DOMAIN store |-> IF i <= released THEN NULL ELSE store[i]]

\* the failAt-th engine call of the teardown fails (none when failAt = 0):
\* (a SCIPreleaseCons that returned OK has released the object created last
\* when the store holds it)
\* one of FreeCalls, the first of which is SCIPfreeSol when a solution is
\* pending, or after them a SCIPaddVarLocks of consLockLazy, whose code SCIPfree
\* passes on. A teardown that fails leaves the model with the constraints it
\* has released set to NULL
CSIPfreeModel ==
    /\ Callable
    /\ LET pending == initialsol # NULL
           pre == IF pending THEN 1 ELSE 0
           last == IF FreeCrashAt > 0 THEN FreeCrashAt - 1
                   ELSE FreeNCalls + LockNCalls
       IN
       \E failAt \in 0..last :
       \E rc \in EngineRc(failAt) :
        IF failAt = 0 /\ FreeCrashAt > 0
        THEN Segfault("CSIPfreeModel") /\ UNCHANGED sideVars
        ELSE
          LET released == IF failAt = 0 THEN 0
                          ELSE Min(nconss, Max(0, failAt - 1 - pre - nvars))
          IN
          /\ sols' = IF pending /\ failAt # 1
                     THEN SCIPfreeSol(sols, initialsol) ELSE sols
          /\ initialsol' = IF pending /\ failAt # 1
                           THEN Cleared(initialsol) ELSE initialsol
          /\ conss' = IF released > 0 THEN ReleasedConss(conss, released) ELSE conss
          /\ scipCons' =
                IF /\ scipCons.handle # 0
                   /\ \E i \in 1..(IF failAt = 0 THEN nconss ELSE released) :
                         conss[i] = scipCons.handle
                THEN [scipCons EXCEPT !.nuses = @ - 1] ELSE scipCons
          /\ pc' = IF failAt = 0 THEN "freed" ELSE pc
          /\ lastOp' = "CSIPfreeModel"
          /\ ret' = IF failAt = 0 THEN CSIP_RETCODE_OK ELSE retCodeSCIPtoCSIP(rc)
          /\ out' = NoOut
          /\ issued' = IF failAt = 0
                       THEN FreeCalls \o LockCalls(0) \o FreeArrays
                       ELSE IF failAt <= FreeNCalls
                       THEN Returning([k \in 1..failAt |-> FreeCallAt(k)], rc)
                       ELSE Returning(FreeCalls \o LockCalls(failAt - FreeNCalls), rc)
          /\ UNCHANGED <<nvars, varssize, vars, nconss, consssize,
                         sense, status, objbound, nlazycb, nheur,
                         scipVar, scipNConss, scipBestSol, scipConshdlrs,
                         okVar, okCons, ghostVars, crashed,
                         twin, conshdlrdata, heurdata, running>>

(* ---------------------------- the stores ------------------------------ *)

\* the number of terms of a builder call that fills a store: one per variable,
\* up to MaxTerms
Terms == {Min(nvars, MaxTerms)}

\* the index array of a call over the first n variables
FirstIndices(n) == [j \in 1..n |-> j - 1]

\* position j of an array of coefficients, weights or bounds carries the value j
BatchValues(n) == [j \in 1..n |-> j]

\* SpecVars: the variable store of a fresh model, filled past its initial
\* capacity
StoreAddVar ==
    \E wantIdx \in BOOLEAN :
        nvars < MaxStore /\ CSIPaddVar(0, 1, "CONTINUOUS", wantIdx) /\ UNCHANGED sideVars

NextVars == StoreAddVar

SpecVars == Init /\ [][NextVars]_allVars

\* a few variables, for the specifications that are about something else
FewAddVar ==
    \E wantIdx \in BOOLEAN :
        nvars < MaxVars /\ CSIPaddVar(0, 1, "CONTINUOUS", wantIdx) /\ UNCHANGED sideVars

\* SpecConss: the constraint store of a fresh model with a few variables,
\* added before the first constraint is built, filled past its initial
\* capacity by the four kinds of constraint
ConssAddVar ==
    \E wantIdx \in BOOLEAN :
        /\ nvars < MaxVars
        /\ scipCons = NoCons
        /\ CSIPaddVar(0, 1, "CONTINUOUS", wantIdx)
        /\ UNCHANGED sideVars

StoreAddLinCons ==
    \E wantIdx \in BOOLEAN, n \in Terms :
        /\ nconss < MaxStore
        /\ CSIPaddLinCons(FirstIndices(n), BatchValues(n), wantIdx)
        /\ UNCHANGED sideVars

StoreAddQuadCons ==
    \E wantIdx \in BOOLEAN, n \in Terms :
        /\ nconss < MaxStore
        /\ CSIPaddQuadCons(FirstIndices(n), BatchValues(n), FirstIndices(n),
                           FirstIndices(n), BatchValues(n), wantIdx)
        /\ UNCHANGED sideVars

StoreAddSOS1 ==
    \E wantIdx \in BOOLEAN, n \in Terms :
        /\ nconss < MaxStore
        /\ CSIPaddSOS1(FirstIndices(n), BatchValues(n), wantIdx)
        /\ UNCHANGED sideVars

StoreAddSOS2 ==
    \E wantIdx \in BOOLEAN, n \in Terms :
        /\ nconss < MaxStore
        /\ CSIPaddSOS2(FirstIndices(n), BatchValues(n), wantIdx)
        /\ UNCHANGED sideVars

NextConss ==
    \/ ConssAddVar
    \/ StoreAddLinCons
    \/ StoreAddQuadCons
    \/ StoreAddSOS1
    \/ StoreAddSOS2

SpecConss == Init /\ [][NextConss]_allVars

(* ---------------------------- Spec ------------------------------------ *)
\* a model with a few variables in [0,1]: objective, sense, a lazy callback
\* that may call set-sense, and solve
SetObj ==
    \E i \in 0..(nvars - 1) :
        CSIPsetObj(<<i>>, <<1>>) /\ UNCHANGED sideVars

AddLazyCallback ==
    /\ Len(scipConshdlrs) < MaxCallbacks
    /\ \E memory \in Uninitialised : CSIPaddLazyCallback(FALSE, memory)
    /\ UNCHANGED lazySide

Next ==
    \/ FewAddVar
    \/ SetObj
    \/ CSIPsetSenseMinimize
    \/ CSIPsetSenseMaximize
    \/ AddLazyCallback
    \/ SolveStart
    \/ SolveFinish

Spec == Init /\ [][Next]_allVars

(* ---------------------------- SpecRead -------------------------------- *)
\* a model without callbacks and without constraints (the search of the model
\* ranges over the bounds of the variables): its variables, objective, bounds
\* and sense are edited, it is solved and read
ObjCoefs == {1}

ReadAddVar ==
    nvars < MaxReadVars /\ CSIPaddVar(0, 1, "CONTINUOUS", TRUE) /\ UNCHANGED sideVars

ReadSetObj ==
    \E i \in 0..(nvars - 1), c \in ObjCoefs :
        CSIPsetObj(<<i>>, <<c>>) /\ UNCHANGED sideVars

\* a variable is fixed at its upper bound
ReadChgVarLB ==
    \E i \in 0..(nvars - 1) :
        CSIPchgVarLB(<<i>>, <<1>>) /\ UNCHANGED sideVars

NextRead ==
    \/ ReadAddVar
    \/ ReadSetObj
    \/ ReadChgVarLB
    \/ CSIPsetSenseMinimize
    \/ CSIPsetSenseMaximize
    \/ SolveStart
    \/ SolveFinish

SpecRead == Init /\ [][NextRead]_allVars

(* ---------------------------- SpecType -------------------------------- *)
\* variables with bounds inside, across and outside [0,1] whose type and
\* bounds are changed
LowerBounds == {-2, 0, 2}

UpperBounds == {-1, 1, 3}

TypeAddVar ==
    \E lowerbound \in LowerBounds, upperbound \in UpperBounds,
       vartype \in {"INTEGER", "CONTINUOUS"} :
        /\ nvars < MaxTypeVars
        /\ lowerbound <= upperbound
        /\ CSIPaddVar(lowerbound, upperbound, vartype, TRUE)
        /\ UNCHANGED sideVars

TypeChgVarType ==
    \E i \in 0..(nvars - 1), vartype \in VARTYPES :
        CSIPchgVarType(i, vartype) /\ UNCHANGED sideVars

TypeChgVarLB ==
    \E i \in 0..(nvars - 1), b \in LowerBounds :
        CSIPchgVarLB(<<i>>, <<b>>) /\ UNCHANGED sideVars

TypeChgVarUB ==
    \E i \in 0..(nvars - 1), b \in UpperBounds :
        CSIPchgVarUB(<<i>>, <<b>>) /\ UNCHANGED sideVars

NextType ==
    \/ TypeAddVar
    \/ TypeChgVarType
    \/ TypeChgVarLB
    \/ TypeChgVarUB

SpecType == Init /\ [][NextType]_allVars

(* ---------------------------- SpecPair -------------------------------- *)
\* two models that receive the same calls, the second with the objective
\* coefficients negated and sense MINIMIZE where the first is told MAXIMIZE;
\* the engine answers the calls the two have in common in the same way, and a
\* search that is given the same coefficients ends with the same solution
PairCoefs == {-1, 1}

\* the first model declares MAXIMIZE and the second holds the negation of the
\* coefficients the user gave the first
Mirrored ==
    /\ sense = MAXIMIZE
    /\ twin.sense = MINIMIZE
    /\ \A i \in 1..nvars : twin.scipVar[vars[i]].obj = (-1) * userObj[i]

\* CSIPsolve of the second model up to the point where SCIPsolve is entered
TwinEnter(tw, mirrored) ==
    LET r == reformSenseMinimize(tw.sense, nvars, vars, tw.scipVar, 0, SCIP_OKAY)
    IN  [tw EXCEPT !.scipVar = r.scipVar,
                   !.presented = ObjOf(r.scipVar),
                   !.mirrored = mirrored]

\* SCIPsolve of the second model ends with e, and its CSIPsolve runs to its end
TwinLeave(tw, e) ==
    IF e[1] # SCIP_OKAY
    THEN [tw EXCEPT !.presented = <<>>]
    ELSE LET r == reformSenseMinimize(tw.sense, nvars, vars, tw.scipVar, 0,
                                      SCIP_OKAY)
         IN  [tw EXCEPT !.scipBestSol = e[3],
                        !.scipVar = r.scipVar,
                        !.presented = <<>>]

PairAddVar ==
    /\ UNCHANGED pluginVars
    /\ nvars < MaxPairVars
    /\ CSIPaddVar(0, 1, "CONTINUOUS", TRUE)
    /\ twin' = [twin EXCEPT !.scipVar =
                   IF Len(scipVar') > Len(scipVar)
                   THEN Append(@, NewVar(0, 1, "CONTINUOUS")) ELSE @]

PairSetObj ==
    \E i \in 0..(nvars - 1), c \in PairCoefs :
        /\ UNCHANGED pluginVars
        /\ CSIPsetObj(<<i>>, <<c>>)
        /\ twin' = [twin EXCEPT !.scipVar =
                       BatchSet(@, vars, <<i>>, <<(-1) * c>>,
                                IF ret' = CSIP_RETCODE_OK THEN 1 ELSE 0, "obj")]

PairSetSense ==
    /\ UNCHANGED pluginVars
    /\ CSIPsetSense("CSIPsetSenseMaximize", MAXIMIZE)
    /\ twin' = [twin EXCEPT !.sense = MINIMIZE]

\* when the first model's CSIPsolve returns before the search, the second
\* model's runs from start to end
PairSolveStart ==
    /\ UNCHANGED <<conshdlrdata, heurdata, running>>
    /\ CSIPsolve_Enter
    /\ IF pc' = "search"
       THEN twin' = TwinEnter(twin, Mirrored)
       ELSE \E e \in SearchEnds(twin.scipVar) :
               twin' = TwinLeave(TwinEnter(twin, FALSE), e)

PairSolveFinish ==
    \E e \in SearchEnds(scipVar) :
        /\ UNCHANGED pluginVars
        /\ CSIPsolve_Leave(e[1], e[2], e[3])
        /\ \E sol \in (IF twin.presented = ObjOf(scipVar)
                       THEN {e[3]} ELSE SearchSols(e[2], twin.scipVar)) :
              twin' = [TwinLeave(twin, <<e[1], e[2], sol>>) EXCEPT
                          !.mirrored = @ /\ ret' = CSIP_RETCODE_OK]

NextPair ==
    \/ PairAddVar
    \/ PairSetObj
    \/ PairSetSense
    \/ PairSolveStart
    \/ PairSolveFinish

SpecPair == Init /\ [][NextPair]_allVars

(* ---------------------------- SpecSolve ------------------------------- *)
\* a model that is given initial solutions, solved under either sense, and
\* freed
SolveAddVar ==
    /\ nvars < MaxSolveVars
    /\ CSIPaddVar(0, 1, "CONTINUOUS", TRUE)
    /\ UNCHANGED sideVars

SolveSetInitialSolution == Len(sols) < MaxSols /\ CSIPsetInitialSolution

NextSolve ==
    \/ SolveAddVar
    \/ SolveSetInitialSolution
    \/ CSIPsetSenseMinimize
    \/ CSIPsetSenseMaximize
    \/ SolveStart
    \/ SolveFinish
    \/ CSIPfreeModel

SpecSolve == Init /\ [][NextSolve]_allVars

(* ---------------------------- SpecLazy -------------------------------- *)
\* a model with lazy callbacks whose handlers the engine invokes while it
\* solves; the user callback reads the candidate and adds lazy constraints
\* the model is built before its one search
LazyAddVar ==
    /\ lastSearch = NoSearch
    /\ nvars < MaxLazyVars
    /\ CSIPaddVar(0, 1, "INTEGER", TRUE)
    /\ UNCHANGED sideVars

LazyAddCallback ==
    \E fractional \in BOOLEAN, memory \in Uninitialised :
        /\ lastSearch = NoSearch
        /\ Len(scipConshdlrs) < MaxCallbacks
        /\ CSIPaddLazyCallback(fractional, memory)
        /\ UNCHANGED lazySide

\* one completed search in a run
LazySolveStart ==
    /\ lastSearch = NoSearch
    /\ CSIPsolve_Enter
    /\ UNCHANGED solveSide

\* how the search ends is not the subject here: it ends without a solution
LazyEnds == {e \in SearchEnds(scipVar) : e[1] = SCIP_OKAY /\ e[2] = "SCIP_STATUS_INFEASIBLE"}

LazySolveFinish ==
    /\ ~running.active
    /\ \E e \in LazyEnds :
          CSIPsolve_Leave(e[1], e[2], e[3]) /\ UNCHANGED sideVars

LazyAddLinCons == \E numindices \in {nvars} :
        CSIPcbAddLinCons(FirstIndices(numindices), BatchValues(numindices))

NextLazy ==
    \/ LazyAddVar
    \/ LazyAddCallback
    \/ LazySolveStart
    \/ LazySolveFinish
    \/ consEnfolpLazy
    \/ consEnfopsLazy
    \/ consCheckLazy
    \/ CSIPcbGetVarValues
    \/ LazyAddLinCons
    \/ consLeave

SpecLazy == Init /\ [][NextLazy]_allVars

(* ---------------------------- SpecEnforce ----------------------------- *)
\* the same, every callback registered for integral candidates only: what a
\* handler does when the engine invokes it does not depend on the flag
EnforceAddCallback ==
    \E memory \in Uninitialised :
        /\ lastSearch = NoSearch
        /\ Len(scipConshdlrs) < MaxCallbacks
        /\ CSIPaddLazyCallback(FALSE, memory)
        /\ UNCHANGED lazySide

NextEnforce ==
    \/ LazyAddVar
    \/ EnforceAddCallback
    \/ LazySolveStart
    \/ LazySolveFinish
    \/ consEnfolpLazy
    \/ consEnfopsLazy
    \/ consCheckLazy
    \/ CSIPcbGetVarValues
    \/ LazyAddLinCons
    \/ consLeave

SpecEnforce == Init /\ [][NextEnforce]_allVars

(* ---------------------------- SpecHeur -------------------------------- *)
\* a model with heuristic callbacks the engine runs while it solves; the user
\* callback supplies solutions
HeurAddVar ==
    /\ lastSearch = NoSearch
    /\ nvars < MaxHeurVars
    /\ CSIPaddVar(0, 1, "INTEGER", TRUE)
    /\ UNCHANGED sideVars

HeurAddCallback ==
    /\ Len(heurdata) < MaxHeurs
    /\ CSIPaddHeuristicCallback

\* a model with a lazy callback is solved once
HeurSolveStart ==
    /\ Len(scipConshdlrs) > 0 => lastSearch = NoSearch
    /\ CSIPsolve_Enter
    /\ UNCHANGED solveSide

\* how the search ends is not the subject here: it fails, or ends without a
\* solution
HeurSolveFinish ==
    /\ ~running.active
    /\ \E e \in SearchEnds(scipVar) :
          /\ e[3] = NULLSOL
          /\ CSIPsolve_Leave(e[1], e[2], e[3])
          /\ UNCHANGED sideVars

HeurSetSolution == Len(sols) < MaxSols /\ CSIPheurSetSolution

\* a lazy callback, whose handler the engine asks about every candidate
HeurAddLazyCallback ==
    /\ lastSearch = NoSearch
    /\ Len(scipConshdlrs) < MaxCallbacks
    /\ \E memory \in Uninitialised : CSIPaddLazyCallback(FALSE, memory)
    /\ UNCHANGED lazySide

HeurAddLinCons == \E numindices \in {nvars} :
        CSIPcbAddLinCons(FirstIndices(numindices), BatchValues(numindices))

NextHeur ==
    \/ HeurAddVar
    \/ HeurAddCallback
    \/ HeurAddLazyCallback
    \/ consCheckLazy_TrySol
    \/ HeurAddLinCons
    \/ consLeave
    \/ HeurSolveStart
    \/ HeurSolveFinish
    \/ heurExecUser_Enter
    \/ HeurSetSolution
    \/ heurExecUser_Leave

SpecHeur == Init /\ [][NextHeur]_allVars

(* ---------------------------- SpecStatus ------------------------------ *)
\* the statuses of the engine: those getStatus names and one it does not
SCIP_STATUSES ==
    {"SCIP_STATUS_UNKNOWN", "SCIP_STATUS_USERINTERRUPT", "SCIP_STATUS_NODELIMIT",
     "SCIP_STATUS_TOTALNODELIMIT", "SCIP_STATUS_STALLNODELIMIT",
     "SCIP_STATUS_TIMELIMIT", "SCIP_STATUS_MEMLIMIT", "SCIP_STATUS_GAPLIMIT",
     "SCIP_STATUS_SOLLIMIT", "SCIP_STATUS_BESTSOLLIMIT",
     "SCIP_STATUS_RESTARTLIMIT", "SCIP_STATUS_OPTIMAL", "SCIP_STATUS_INFEASIBLE",
     "SCIP_STATUS_UNBOUNDED", "SCIP_STATUS_INFORUNBD", "SCIP_STATUS_TERMINATE"}

\* a model that is solved again and again, the search ending with any status
\* of the engine and without a solution
StatusAddVar ==
    /\ nvars < MaxStatusVars
    /\ CSIPaddVar(0, 1, "CONTINUOUS", TRUE)
    /\ UNCHANGED sideVars

StatusSolveStart == CSIPsolve_Enter /\ UNCHANGED solveSide

StatusSolveFinish ==
    \E rc \in SCIP_RETCODES, st \in SCIP_STATUSES :
        /\ rc # SCIP_OKAY => st = "SCIP_STATUS_UNKNOWN"
        /\ CSIPsolve_Leave(rc, st, NULLSOL)
        /\ UNCHANGED sideVars

NextStatus ==
    \/ StatusAddVar
    \/ StatusSolveStart
    \/ StatusSolveFinish

SpecStatus == Init /\ [][NextStatus]_allVars

(* ---------------------------- SpecFree -------------------------------- *)
\* a model with variables, constraints, a lazy callback and an initial
\* solution that is torn down
FreeAddVar ==
    /\ nvars < MaxFreeVars
    /\ CSIPaddVar(0, 1, "CONTINUOUS", TRUE)
    /\ UNCHANGED sideVars

FreeAddLinCons ==
    /\ nconss < MaxConss
    /\ CSIPaddLinCons(FirstIndices(nvars), BatchValues(nvars), TRUE)
    /\ UNCHANGED sideVars

FreeAddLazyCallback ==
    /\ Len(scipConshdlrs) < MaxCallbacks
    /\ \E memory \in Uninitialised : CSIPaddLazyCallback(FALSE, memory)
    /\ UNCHANGED lazySide

FreeSetInitialSolution ==
    /\ initialsol = NULL
    /\ Len(sols) < MaxSols
    /\ CSIPsetInitialSolution

NextFree ==
    \/ FreeAddVar
    \/ FreeAddLinCons
    \/ FreeAddLazyCallback
    \/ FreeSetInitialSolution
    \/ CSIPfreeModel

SpecFree == Init /\ [][NextFree]_allVars

(* ---------------------------- SpecNames ------------------------------- *)
\* a model on which lazy and heuristic callbacks are registered, every step of
\* a registration failing or not
NamesAddLazyCallback ==
    /\ Len(scipConshdlrs) < MaxPlugins
    /\ \E fractional \in BOOLEAN, memory \in Uninitialised :
          CSIPaddLazyCallback(fractional, memory)
    /\ UNCHANGED lazySide

NamesAddHeuristicCallback ==
    /\ Len(heurdata) < MaxPlugins
    /\ CSIPaddHeuristicCallback

NextNames ==
    \/ NamesAddLazyCallback
    \/ NamesAddHeuristicCallback

SpecNames == Init /\ [][NextNames]_allVars

(* ---------------------------- SpecBatch ------------------------------- *)
\* batch calls over a few variables
\* the index arrays of a batch call
BatchIndices == UNION {[1..n -> 0..(nvars - 1)] : n \in 0..MaxBatch}

\* no batch call has changed a variable yet and no builder has created a
\* constraint: each run makes its batch call on variables that have the values
\* they were added with, or builds its constraint on an engine without one
Untouched ==
    /\ \A var \in DOMAIN scipVar :
          scipVar[var].lb = 0 /\ scipVar[var].ub = 0 /\ scipVar[var].obj = 0
    /\ scipCons = NoCons

BatchAddVar ==
    /\ nvars < MaxBatchVars
    /\ CSIPaddVar(0, 0, "CONTINUOUS", TRUE)
    /\ UNCHANGED sideVars

BatchChgVarLB ==
    \E indices \in BatchIndices :
        Untouched /\ CSIPchgVarLB(indices, BatchValues(Len(indices))) /\ UNCHANGED sideVars

BatchChgVarUB ==
    \E indices \in BatchIndices :
        Untouched /\ CSIPchgVarUB(indices, BatchValues(Len(indices))) /\ UNCHANGED sideVars

BatchSetObj ==
    \E indices \in BatchIndices :
        Untouched /\ CSIPsetObj(indices, BatchValues(Len(indices))) /\ UNCHANGED sideVars

BatchAddLinCons ==
    \E indices \in BatchIndices :
        /\ Untouched
        /\ CSIPaddLinCons(indices, BatchValues(Len(indices)), TRUE)
        /\ UNCHANGED sideVars

\* a quadratic constraint of at most MaxBatch terms: the bilinear term of a
\* row index pairs its variable with the one at the mirrored index, and the
\* k-th term of the constraint, linear or bilinear, carries the value k
BatchAddQuadCons ==
    \E linindices \in BatchIndices, quadrowindices \in BatchIndices :
        /\ Untouched
        /\ Len(linindices) + Len(quadrowindices) <= MaxBatch
        /\ CSIPaddQuadCons(linindices, BatchValues(Len(linindices)),
                           quadrowindices,
                           [j \in DOMAIN quadrowindices |->
                               nvars - 1 - quadrowindices[j]],
                           [j \in DOMAIN quadrowindices |-> Len(linindices) + j],
                           TRUE)
        /\ UNCHANGED sideVars

NextBatch ==
    \/ BatchAddVar
    \/ BatchChgVarLB
    \/ BatchChgVarUB
    \/ BatchSetObj
    \/ BatchAddLinCons
    \/ BatchAddQuadCons

SpecBatch == Init /\ [][NextBatch]_allVars

(* ====================================================================== *)
(* The claims                                                             *)
(* ====================================================================== *)
ConsOps == {"CSIPaddLinCons", "CSIPaddQuadCons", "CSIPaddSOS1", "CSIPaddSOS2"}

\* the last call was op and it returned code (a call that killed the process
\* returned nothing)
Returned(op, code) == lastOp = op /\ ret = code /\ ~crashed

\* C1: on a fresh model the k-th add-variable call that returns OK (counting
\* from 0) reports index k, and get-variable-count equals the number of
\* add-variable calls that returned OK so far, also when a call passed no
\* index output.
C1_VarIndices ==
    /\ CSIPgetNumVars = okVar
    /\ (Returned("CSIPaddVar", CSIP_RETCODE_OK) /\ out # NoOut)
          => out = okVar - 1

\* the 65th variable has been added with an index output, after calls
\* without one and after the array has grown
C1_Witness ==
    /\ Returned("CSIPaddVar", CSIP_RETCODE_OK)
    /\ out = INITIALSIZE
    /\ varssize = GROWFACTOR * INITIALSIZE
    /\ vars # NULLARRAY

\* C2: for every interleaving of the four add-constraint calls on a fresh
\* model, the k-th call that returns OK (counting from 0, over all kinds)
\* reports index k, the count never decreases, and the handle stored at an
\* assigned index is never replaced by another constraint's.
C2_Reported ==
    /\ nconss = okCons
    /\ ((\E op \in ConsOps : Returned(op, CSIP_RETCODE_OK)) /\ out # NoOut)
          => out = okCons - 1

C2_ConsIndices ==
    [][/\ C2_Reported
       /\ C2_Reported'
       /\ nconss' >= nconss
       /\ (conss # NULLARRAY /\ conss' # NULLARRAY)
             => \A i \in 1..nconss : conss'[i] = conss[i]]_allVars

\* an SOS2 constraint received index 64 after the array has grown
C2_Witness ==
    /\ Returned("CSIPaddSOS2", CSIP_RETCODE_OK)
    /\ out = INITIALSIZE
    /\ consssize = GROWFACTOR * INITIALSIZE
    /\ conss # NULLARRAY
    /\ Len(conss) = INITIALSIZE + 1

\* C3: when the allocation that grows a store fails during an append (the
\* engine took the object, the store was full, no entry was appended), the
\* call returns OUT_OF_MEMORY and count, capacity and backing array of the
\* store are what they were.
C3_GrowthFailureKeepsStore ==
    [][/\ (/\ lastOp' = "CSIPaddVar"
           /\ ~crashed'
           /\ Len(scipVar') > Len(scipVar)
           /\ NeedResize(nvars, varssize)
           /\ nvars' = nvars)
          => (ret' = CSIP_RETCODE_NOMEMORY /\ varssize' = varssize /\ vars' = vars)
       /\ (/\ lastOp' \in ConsOps
           /\ ~crashed'
           /\ scipNConss' > scipNConss
           /\ NeedResize(nconss, consssize)
           /\ nconss' = nconss)
          => (ret' = CSIP_RETCODE_NOMEMORY /\ consssize' = consssize
              /\ conss' = conss)]_allVars

\* the coefficient the engine holds for the variable at a public index
EngineObj(i) == scipVar[VarAt(vars, i)].obj

\* C4: every solve call that returns OK leaves each objective coefficient of
\* the engine at the value it had immediately before the call, and while the
\* engine search runs the coefficient is the negation of that value if the
\* sense is MAXIMIZE and the value itself if the sense is MINIMIZE.
C4_SolveKeepsObjective ==
    [][/\ (pc = "search" /\ pc' = "idle" /\ ~crashed' /\ ret' = CSIP_RETCODE_OK)
             => ObjOf(scipVar') = preObj
       /\ pc' = "search"
             => \A var \in DOMAIN scipVar' :
                   scipVar'[var].obj = IF sense' = MAXIMIZE
                                       THEN (-1) * preObj'[var]
                                       ELSE preObj'[var]]_allVars

\* C5: whenever no solve call is in progress, each objective coefficient of
\* the engine is the coefficient the user last set for that variable (0 if
\* never set).
C5_ObjectiveIsUsers ==
    (pc = "idle" /\ ~crashed)
       => \A i \in 0..(nvars - 1) : EngineObj(i) = userObj[i + 1]

\* C6: of two models run side by side, one with coefficients c and sense
\* MAXIMIZE, the other with coefficients -c and sense MINIMIZE, both searches
\* are given the same objective coefficients, and when both hold a solution
\* get-variable-values returns the same assignment and the two
\* get-objective-value results are negations of each other.
C6_MirroredModelsAgree ==
    /\ (pc = "search" /\ twin.mirrored) => ObjOf(scipVar) = twin.presented
    /\ (/\ pc = "idle" /\ ~crashed /\ twin.mirrored
        /\ scipBestSol # NULLSOL /\ twin.scipBestSol # NULLSOL)
          => /\ CSIPgetVarValues(scipBestSol, nvars, vars)
                = CSIPgetVarValues(twin.scipBestSol, nvars, vars)
             /\ CSIPgetObjValue(sense, scipBestSol)
                = (-1) * CSIPgetObjValue(twin.sense, twin.scipBestSol)

\* C7: get-status and get-objective-bound return UNKNOWN and NaN while no
\* search of the engine has completed, and afterwards the translated status
\* and the sign-adjusted dual bound of the most recent completed search; only
\* a solve call whose search ended changes them.
C7_Cached ==
    IF lastSearch.n = 0
    THEN CSIPgetStatus = "CSIP_STATUS_UNKNOWN" /\ CSIPgetObjBound = NaN
    ELSE /\ CSIPgetStatus = getStatus(lastSearch.status)
         /\ CSIPgetObjBound = (IF lastSearch.sense = MAXIMIZE
                               THEN (-1) * lastSearch.dual ELSE lastSearch.dual)

C8_ReadInDeclaredSense ==
    (pc = "idle" /\ lastSearch.n = 1 /\ scipBestSol # NULLSOL)
       => /\ CSIPgetObjValue(sense, scipBestSol) =
                (IF sense = MAXIMIZE THEN (-1) * scipBestSol.obj
                                     ELSE scipBestSol.obj)
          /\ CSIPgetObjBound =
                (IF sense = MAXIMIZE THEN (-1) * lastSearch.dual
                                     ELSE lastSearch.dual)

\* C9: what get-objective-value returns when the engine holds no best
\* solution differs from every value it returns when the engine holds one.
C9_ErrorDistinguishable ==
    scipBestSol # NULLSOL
       => CSIPgetObjValue(sense, scipBestSol) # CSIPgetObjValue(sense, NULLSOL)

\* C10: after change-variable-type(index, BINARY) returns OK the lower and the
\* upper bound of the variable both lie in [0,1], whatever they were before;
\* a change to another type issues no bound change for the variable.
C10_BinaryBoundsClamped ==
    Returned("CSIPchgVarType", CSIP_RETCODE_OK)
       => LET call == issued[1]
              var == scipVar[call.var]
          IN  IF call.val = "BINARY"
              THEN var.lb \in 0..1 /\ var.ub \in 0..1
              ELSE Len(issued) = 1

\* C11: a solve call that reaches the engine's search with an initial
\* solution pending has handed that object to the engine exactly once and left
\* the slot empty; one that reaches it with the slot empty hands nothing; no
\* object is ever handed twice.
C11_InitialSolutionHandedOnce ==
    [][(pc = "idle" /\ pc' = "search")
          => /\ IF initialsol # NULL
                THEN /\ sols[initialsol].handed = 0
                     /\ sols'[initialsol].handed = 1
                     /\ \A o \in DOMAIN sols : o # initialsol => sols'[o] = sols[o]
                ELSE sols' = sols
             /\ initialsol' = 0
             /\ Len(SelectSeq(issued', LAMBDA c : c.fn = "SCIPaddSolFree"))
                  = (IF initialsol # NULL THEN 1 ELSE 0)]_allVars

\* a second search has been entered after one that took an initial solution
C11_Witness ==
    /\ pc = "search"
    /\ initialsol = 0
    /\ Len(sols) = 1
    /\ sols[1].handed = 1
    /\ lastSearch.n = 1
    /\ issued = <<Event("SCIPsolve")>>

\* C12: at most one initial solution is pending, and every solution object
\* the wrapper created is either the pending one or has been released exactly
\* once (by set-initial-solution, by the hand-over in solve, or by free-model);
\* after free-model none is pending.
C12_SolutionsReleasedOnce ==
    ~crashed =>
       /\ \A o \in DOMAIN sols :
             IF o = initialsol THEN sols[o].handed + sols[o].freed = 0
                               ELSE sols[o].handed + sols[o].freed = 1
       /\ initialsol # 0 => initialsol \in DOMAIN sols
       /\ pc = "freed" => initialsol = 0

\* the model was freed after three initial solutions: one replaced, one
\* handed to the engine, one still pending at the free
C12_Witness ==
    /\ pc = "freed"
    /\ Len(sols) = 3
    /\ \E o \in DOMAIN sols : sols[o].handed = 1
    /\ Cardinality({o \in DOMAIN sols : sols[o].freed = 1}) = 2
    /\ Returned("CSIPfreeModel", CSIP_RETCODE_OK)

\* C15: the engine calls of a solve call come in this order: the negations
\* of the first reformSenseMinimize, the hand-over of the initial solution, the
\* search, the read of the status, the read of the dual bound, the discard of
\* the transformed problem, the negations of the second reformSenseMinimize;
\* each of the five calls in the middle is made at most once.
C15_Phase(i) ==
    LET fn == issued[i].fn
    IN  CASE fn = "SCIPaddSolFree" -> 2
          [] fn = "SCIPsolve" -> 3
          [] fn = "SCIPgetStatus" -> 4
          [] fn = "SCIPgetDualbound" -> 5
          [] fn = "SCIPfreeTransform" -> 6
          [] OTHER -> IF \E j \in 1..(i - 1) : issued[j].fn = "SCIPsolve"
                      THEN 7 ELSE 1

C15_SolveOrder ==
    lastOp = "CSIPsolve" =>
       /\ \A i, j \in DOMAIN issued :
             i < j => /\ C15_Phase(i) <= C15_Phase(j)
                      /\ C15_Phase(i) \in 2..6 => C15_Phase(i) < C15_Phase(j)
       /\ \A i \in DOMAIN issued :
             C15_Phase(i) \in 4..6 => \E j \in 1..(i - 1) : C15_Phase(j) = C15_Phase(i) - 1
       /\ (pc = "idle" /\ ret = CSIP_RETCODE_OK /\ ~crashed)
             => \E i \in DOMAIN issued : C15_Phase(i) = 6

\* a solve under MAXIMIZE with an initial solution has returned OK
C15_Witness ==
    /\ Returned("CSIPsolve", CSIP_RETCODE_OK)
    /\ pc = "idle"
    /\ nvars = 1
    /\ issued = <<Event("SCIPchgVarObj"), Event("SCIPaddSolFree"), Event("SCIPsolve"),
                  Event("SCIPgetStatus"), Event("SCIPgetDualbound"),
                  Event("SCIPfreeTransform"), Event("SCIPchgVarObj")>>

\* C13: a batch call (change-lower-bounds, change-upper-bounds,
\* set-objective, or the coefficient loops of the linear and the quadratic
\* constraint builder) makes its engine calls position by position, each
\* once; when the call of position i fails it is the last call made and the
\* operation returns the translation of its code: the changes of the positions
\* before i are in the engine (in the variables, or in the constraint object
\* under construction), none of position i or a later one is. A builder that
\* fails adds no constraint to the problem or the store.
C13_Field(var, op) ==
    CASE op = "CSIPchgVarLB" -> var.lb
      [] op = "CSIPchgVarUB" -> var.ub
      [] OTHER -> var.obj

\* the engine calls of the coefficient loops of the builders
C13_CoefCalls ==
    {"SCIPaddCoefLinear", "SCIPaddLinearVarQuadratic", "SCIPaddBilinTermQuadratic"}

\* the code the wrapper returns when the last call of a log returned rc
C13_Translated(log) ==
    LET rc == log[Len(log)].rc
    IN  CASE rc = "SCIP_OKAY" -> CSIP_RETCODE_OK
          [] rc = "SCIP_NOMEMORY" -> CSIP_RETCODE_NOMEMORY
          [] OTHER -> CSIP_RETCODE_ERROR

C13_BatchFailsAtOnce ==
    [][/\ (lastOp' \in {"CSIPchgVarLB", "CSIPchgVarUB", "CSIPsetObj"} /\ ~crashed')
          => LET made == Len(issued')
                 failed == made > 0 /\ issued'[made].rc # SCIP_OKAY
                 applied == IF failed THEN made - 1 ELSE made
             IN  /\ \A j \in 1..made :
                       /\ issued'[j].val = j
                       /\ j < made => issued'[j].rc = SCIP_OKAY
                 /\ ret' = (IF made = 0 THEN CSIP_RETCODE_OK
                            ELSE C13_Translated(issued'))
                 /\ failed => ret' # CSIP_RETCODE_OK
                 /\ \A var \in DOMAIN scipVar :
                       LET hits == {j \in 1..applied : issued'[j].var = var}
                       IN  C13_Field(scipVar'[var], lastOp') =
                              IF hits = {} THEN C13_Field(scipVar[var], lastOp')
                              ELSE CHOOSE j \in hits : \A k \in hits : k <= j
       /\ (/\ lastOp' \in {"CSIPaddLinCons", "CSIPaddQuadCons"}
           /\ ~crashed'
           /\ issued'[1].rc = SCIP_OKAY)
          => LET loop == SelectSeq(issued', LAMBDA c : c.fn \in C13_CoefCalls)
                 made == Len(loop)
                 failed == made > 0 /\ loop[made].rc # SCIP_OKAY
                 applied == IF failed THEN made - 1 ELSE made
             IN  /\ \A j \in 1..made :
                       /\ issued'[j + 1] = loop[j]
                       /\ loop[j].val = j
                       /\ j < made => loop[j].rc = SCIP_OKAY
                 /\ failed => Len(issued') = made + 1
                 /\ Len(scipCons'.terms) = applied
                 /\ \A j \in 1..applied :
                       /\ scipCons'.terms[j].var = loop[j].var
                       /\ scipCons'.terms[j].var2 = loop[j].var2
                       /\ scipCons'.terms[j].val = j
       /\ (/\ lastOp' \in {"CSIPaddLinCons", "CSIPaddQuadCons"}
           /\ ~crashed'
           /\ issued'[Len(issued')].rc # SCIP_OKAY)
          => /\ ret' = C13_Translated(issued')
             /\ ret' # CSIP_RETCODE_OK
             /\ \A j \in 1..(Len(issued') - 1) : issued'[j].rc = SCIP_OKAY
             /\ scipNConss' = scipNConss
             /\ nconss' = nconss
             /\ conss' = conss]_allVars

\* a linear constraint of two coefficients was being built when the call of
\* the second position failed: the first coefficient is in the constraint
\* object, the second is not, and the object is left with the engine
C13_Witness ==
    /\ lastOp = "CSIPaddLinCons"
    /\ ret = CSIP_RETCODE_ERROR
    /\ ~crashed
    /\ Len(issued) = 3
    /\ issued[3].fn = "SCIPaddCoefLinear"
    /\ issued[3].rc = "SCIP_ERROR"
    /\ Len(scipCons.terms) = 1
    /\ scipCons.terms[1].val = 1
    /\ scipCons.nuses = 1
    /\ nconss = 0

\* C14: a lazy callback registered with allow-fractional = true is enforced
\* before the engine's integrality handler (priority 0), one registered with
\* allow-fractional = false after it, the engine enforcing in decreasing priority.
C14_FractionalBeforeIntegrality ==
    \A h \in 1..Len(scipConshdlrs) :
        scipConshdlrs[h].fractional
            <=> EnforcedBeforeIntegrality(scipConshdlrs[h].priority)

\* a step in which the engine invokes a lazy plugin
C16_Enters == ~running.active /\ running'.active

\* a step in which the user callback returns and the plugin with it
C16_Leaves == running.active /\ ~running'.active

\* C16: every invocation of a lazy plugin resets the verdict to feasible before
\* the user callback runs; when the callback returns OK the result is FEASIBLE
\* iff the verdict is still feasible, else CONSADDED in enforcement (LP and
\* pseudo solution) and INFEASIBLE in check.
C16_VerdictResetAndReported ==
    [][/\ C16_Enters => conshdlrdata'[running'.hdlr].feasible = TRUE
       /\ (C16_Leaves /\ running'.rc = SCIP_OKAY)
          => LET feasible == conshdlrdata[running.hdlr].feasible
             IN  /\ running'.result = SCIP_FEASIBLE <=> feasible
                 /\ ~feasible =>
                       running'.result =
                          IF running.kind \in {"enfolp", "enfops"}
                          THEN SCIP_CONSADDED ELSE SCIP_INFEASIBLE]_allVars

\* a pseudo-solution enforcement starts on a handler whose verdict was left
\* infeasible
C16_Witness ==
    /\ running.active
    /\ running.kind = "enfops"
    /\ running.result = SCIP_FEASIBLE
    /\ conshdlrdata[running.hdlr].feasible
    /\ lastOp = "CSIPcbAddLinCons"
    /\ \E i \in 1..Len(issued) : issued[i].fn = "SCIPcheckCons" /\ issued[i].val = 1

\* a step that is a call of add-lazy-constraint
C17_Adds ==
    running.active /\ running'.active /\ lastOp' = "CSIPcbAddLinCons" /\ ~crashed'

\* the engine call fn of the call just made succeeded
C17_Made(fn) ==
    \E i \in 1..Len(issued') :
        issued'[i].fn = fn /\ (ret' = CSIP_RETCODE_OK \/ i < Len(issued'))

\* C17: add-lazy-constraint attaches the constraint to the search iff the
\* invocation is an enforcement and the engine is not in its solved stage, never
\* in check mode, and it never changes the model's constraint store.
C17_AttachedInEnforcementOnly ==
    [][C17_Adds
       => LET enforcing == running.kind \in {"enfolp", "enfops"}
                           /\ running.stage # SCIP_STAGE_SOLVED
          IN  /\ C17_Made("SCIPaddCons") => enforcing
              /\ (ret' = CSIP_RETCODE_OK /\ enforcing) => C17_Made("SCIPaddCons")
              /\ nconss' = nconss
              /\ conss' = conss
              /\ consssize' = consssize
              /\ scipNConss' = scipNConss]_allVars

\* an enforcement attached a constraint
C17_Witness ==
    /\ running.active
    /\ running.kind = "enfolp"
    /\ lastOp = "CSIPcbAddLinCons"
    /\ ret = CSIP_RETCODE_OK
    /\ \E i \in 1..Len(issued) : issued[i].fn = "SCIPaddCons"

\* the solution an invocation is about: the engine's current one in
\* enforcement, the candidate in check
C18_Target == IF running.kind = "check" THEN running.sol ELSE NULL

\* C18: outside the solved stage add-lazy-constraint checks the constraint
\* against the invocation's target solution (the current solution in
\* enforcement, never a candidate left by an earlier check; the candidate in
\* check), sets the verdict infeasible when the check reports infeasible and
\* never sets it back: the verdict is infeasible iff a constraint added in this
\* invocation was violated by the target solution.
C18_VerdictFollowsChecks ==
    /\ [](running.active /\ running.stage # SCIP_STAGE_SOLVED
          => (~conshdlrdata[running.hdlr].feasible <=> running.violated))
    /\ [][/\ (C17_Adds /\ running.stage # SCIP_STAGE_SOLVED)
             => /\ \A i \in 1..Len(issued') :
                      issued'[i].fn = "SCIPcheckCons" => issued'[i].var = C18_Target
                /\ ~conshdlrdata'[running.hdlr].feasible
                   <=> \/ ~conshdlrdata[running.hdlr].feasible
                       \/ \E i \in 1..Len(issued') :
                            /\ issued'[i].fn = "SCIPcheckCons"
                            /\ issued'[i].val = 1
                            /\ (ret' = CSIP_RETCODE_OK \/ i < Len(issued'))
          /\ (running.active /\ running'.active /\ lastOp' = "CSIPcbGetVarValues"
              /\ ~crashed')
             => out' = C18_Target]_allVars

\* an enforcement on a handler whose data holds a solution pointer, left by an
\* earlier check or by the allocation: a constraint was checked against the
\* current solution and found violated
C18_Witness ==
    /\ running.active
    /\ running.kind = "enfolp"
    /\ conshdlrdata[running.hdlr].sol # NULL
    /\ ~conshdlrdata[running.hdlr].feasible
    /\ lastOp = "CSIPcbAddLinCons"
    /\ \E i \in 1..Len(issued) :
          issued[i].fn = "SCIPcheckCons" /\ issued[i].var = NULL /\ issued[i].val = 1

\* C19: in the solved stage add-lazy-constraint returns OK, sets the verdict
\* feasible and makes no engine call; a check invocation at the solved stage
\* reports FEASIBLE.
C19_SolvedStageShortCircuit ==
    [][/\ (C17_Adds /\ running.stage = SCIP_STAGE_SOLVED)
          => /\ ret' = CSIP_RETCODE_OK
             /\ conshdlrdata'[running.hdlr].feasible = TRUE
             /\ issued' = <<>>
       /\ (C16_Leaves /\ running.kind = "check" /\ running.stage = SCIP_STAGE_SOLVED)
          => running'.result = SCIP_FEASIBLE]_allVars

\* add-lazy-constraint was called in a check at the solved stage
C19_Witness ==
    /\ running.active
    /\ running.kind = "check"
    /\ running.stage = SCIP_STAGE_SOLVED
    /\ lastOp = "CSIPcbAddLinCons"
    /\ ret = CSIP_RETCODE_OK
    /\ issued = <<>>
    /\ nvars > 0

\* C20: the heuristic plugin's solution slot is empty at the start and at the
\* end of every invocation, whatever the user callback does, and every solution
\* object set-heuristic-solution creates is submitted to the engine or released.
C20_HeuristicSlotEmpty ==
    /\ ~running.active => \A h \in 1..Len(heurdata) : heurdata[h].sol = NULL
    /\ \A sol \in 1..Len(sols) :
          sols[sol].handed + sols[sol].freed = 0
             => \E h \in 1..Len(heurdata) : heurdata[h].sol = sol

\* a step in which the heuristic's user callback returns OK and the plugin
\* returns OK to the engine
C21_LeavesOk ==
    /\ running.active
    /\ running.kind \in {"heur", "try"}
    /\ ~running'.active
    /\ running'.rc = SCIP_OKAY

\* C21: an invocation of the heuristic plugin whose callback returns OK reports
\* FOUNDSOL iff the callback supplied a candidate and the engine stored it, and
\* DIDNOTFIND when none was supplied or the engine rejected it.
C21_FoundIffSuppliedAndStored ==
    [][C21_LeavesOk
       => /\ running'.result = SCIP_FOUNDSOL
                <=> (running.sol # NULL /\ running'.stored)
          /\ running'.result # SCIP_FOUNDSOL => running'.result = SCIP_DIDNOTFIND
          /\ running.sol # NULL
                => sols'[running.sol].handed = sols[running.sol].handed + 1]_allVars

\* the wrapper's nine statuses
C22_Nine ==
    {"CSIP_STATUS_OPTIMAL", "CSIP_STATUS_INFEASIBLE", "CSIP_STATUS_UNBOUNDED",
     "CSIP_STATUS_INFORUNBD", "CSIP_STATUS_NODELIMIT", "CSIP_STATUS_TIMELIMIT",
     "CSIP_STATUS_MEMLIMIT", "CSIP_STATUS_USERLIMIT", "CSIP_STATUS_UNKNOWN"}

\* the translation as the claim lists it
C22_Listed(st) ==
    IF st = "SCIP_STATUS_OPTIMAL" THEN "CSIP_STATUS_OPTIMAL"
    ELSE IF st = "SCIP_STATUS_INFEASIBLE" THEN "CSIP_STATUS_INFEASIBLE"
    ELSE IF st = "SCIP_STATUS_UNBOUNDED" THEN "CSIP_STATUS_UNBOUNDED"
    ELSE IF st = "SCIP_STATUS_INFORUNBD" THEN "CSIP_STATUS_INFORUNBD"
    ELSE IF st = "SCIP_STATUS_TIMELIMIT" THEN "CSIP_STATUS_TIMELIMIT"
    ELSE IF st = "SCIP_STATUS_MEMLIMIT" THEN "CSIP_STATUS_MEMLIMIT"
    ELSE IF st \in {"SCIP_STATUS_NODELIMIT", "SCIP_STATUS_TOTALNODELIMIT"}
         THEN "CSIP_STATUS_NODELIMIT"
    ELSE IF st \in {"SCIP_STATUS_USERINTERRUPT", "SCIP_STATUS_STALLNODELIMIT",
                    "SCIP_STATUS_GAPLIMIT", "SCIP_STATUS_SOLLIMIT",
                    "SCIP_STATUS_BESTSOLLIMIT", "SCIP_STATUS_RESTARTLIMIT"}
         THEN "CSIP_STATUS_USERLIMIT"
    ELSE "CSIP_STATUS_UNKNOWN"

\* C22: the status translation is total, its values are the wrapper's nine
\* statuses, and it maps each engine status as listed: the namesakes, the two
\* node limits to NODELIMIT, the six user limits to USERLIMIT, unknown and every
\* status not listed to UNKNOWN.
C22_StatusTranslation ==
    /\ status \in C22_Nine
    /\ lastSearch.n = 1 => status = C22_Listed(lastSearch.status)

\* a search ended at the total node limit
C22_Witness ==
    /\ lastSearch.n = 1
    /\ lastSearch.status = "SCIP_STATUS_TOTALNODELIMIT"
    /\ status = "CSIP_STATUS_NODELIMIT"
    /\ Returned("CSIPsolve", CSIP_RETCODE_OK)

\* the place of an engine call in a teardown
C23_Phase(fn) ==
    CASE fn = "SCIPfreeSol" -> 1
      [] fn = "SCIPreleaseVar" -> 2
      [] fn = "SCIPreleaseCons" -> 3
      [] fn \in {"SCIPfree", "SCIPaddVarLocks"} -> 4
      [] OTHER -> 5

\* the calls of log with name fn, in their order
C23_Of(log, fn) == SelectSeq(log, LAMBDA c : c.fn = fn)

\* C23: a teardown that returns OK releases the pending initial solution if
\* there is one, then every variable in index order, then every constraint in
\* index order, then the session, then the arrays and the model; each is
\* released exactly once and no handle is used after its release.
C23_TeardownOrder ==
    [][(lastOp' = "CSIPfreeModel" /\ ret' = CSIP_RETCODE_OK /\ pc = "idle"
        /\ pc' = "freed")
       => LET log == issued'
          IN  /\ \A i, j \in 1..Len(log) :
                    i < j => C23_Phase(log[i].fn) <= C23_Phase(log[j].fn)
              /\ Len(C23_Of(log, "SCIPfreeSol")) = (IF initialsol # NULL THEN 1 ELSE 0)
              /\ C23_Of(log, "SCIPreleaseVar") =
                    [i \in 1..nvars |-> Call("SCIPreleaseVar", VarAt(vars, i - 1), 0)]
              /\ C23_Of(log, "SCIPreleaseCons") =
                    [i \in 1..nconss |-> Call("SCIPreleaseCons", VarAt(conss, i - 1), 0)]
              /\ Len(C23_Of(log, "SCIPfree")) = 1
              /\ \A fn \in {"free(model->conss)", "free(model->vars)", "free(model)"} :
                    Len(C23_Of(log, fn)) = 1
              /\ log[Len(log)].fn = "free(model)"
              /\ \A i, j \in 1..Len(log) :
                    (i < j /\ log[i].fn = "SCIPreleaseVar")
                       => ~(log[j].fn = "SCIPaddVarLocks" /\ log[j].var = log[i].var)
      ]_allVars

\* the plugins of a list carry pairwise different names
C24_Distinct(plugins) ==
    \A i, j \in DOMAIN plugins : i # j => plugins[i].name # plugins[j].name

\* the two counters do not decrease in a step
C24_CountersGrow == [][nlazycb' >= nlazycb /\ nheur' >= nheur]_allVars

\* C24: the lazy-callback counter and the heuristic-callback counter never
\* decrease, and after any sequence of registrations, failed ones included, no
\* two constraint handlers and no two heuristics included in the session
\* carry the same generated name.
C24_CountersGrowNamesUnique ==
    [][/\ nlazycb' >= nlazycb
       /\ nheur' >= nheur
       /\ C24_Distinct(scipConshdlrs')
       /\ C24_Distinct(heurdata')]_allVars

====
